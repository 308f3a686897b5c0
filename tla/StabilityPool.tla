--------------------------- MODULE StabilityPool ---------------------------
(***************************************************************************)
(* The stability pool (StabilityPool.sol) and the issuance of protocol     *)
(* tokens to its depositors (CommunityIssuance.sol).                       *)
(*                                                                         *)
(* A liquidation takes from every deposit, and gives to it, in one step:   *)
(* the product P is the share of a deposit that is left, the sums S and G  *)
(* are the collateral and the protocol tokens a unit of deposit earned.    *)
(* Each deposit, and the total of the deposits tagged with a front end,    *)
(* remembers P, S and G when it was last written.  P shrinks; below        *)
(* SCALE_FACTOR it is scaled up and the scale is counted; when the pool is *)
(* emptied P starts again and the epoch is counted.                        *)
(*                                                                         *)
(* The trove manager appears as the offsets it makes, the price as the     *)
(* choice of when a withdrawal is allowed; time advances by minutes.       *)
(***************************************************************************)
EXTENDS DecimalPower, Sums, FiniteSetsExt

CONSTANTS
    SCALE_FACTOR,         \* 1e9
    ISSUANCE_FACTOR,      \* what is left to issue after a minute
    Users,                \* depositors and front ends
    NoFrontEnd,           \* the zero address as a tag
    KickbackRates,        \* shares of a gain a front end may leave to depositors
    Provided,             \* amounts provided
    Withdrawn,            \* amounts a withdrawal asks for
    Debts,                \* debts of liquidations
    Colls,                \* collateral of liquidations
    Supplies,             \* protocol tokens sent to the issuance at a time
    MaxOffsets,           \* bound on the offsets
    MaxDeposits,          \* bound on the total of the deposits
    MaxFIL,               \* bound on the pool's collateral
    MaxEpoch,             \* bound on pool-emptying liquidations
    MaxScale,             \* bound on changes of scale in an epoch
    MaxMinutes,           \* bound on the clock
    MaxSupply             \* bound on the protocol tokens in the issuance

ASSUME PoolAssumption ==
    /\ DECIMAL_PRECISION \in Nat /\ SCALE_FACTOR \in Nat
    /\ 1 < SCALE_FACTOR /\ SCALE_FACTOR < DECIMAL_PRECISION
    /\ ISSUANCE_FACTOR \in 0 .. DECIMAL_PRECISION
    /\ KickbackRates \subseteq 0 .. DECIMAL_PRECISION
    /\ Provided \cup Withdrawn \subseteq Nat /\ Debts \subseteq Nat \ {0}
    /\ Colls \subseteq Nat /\ Supplies \subseteq Nat
    /\ NoFrontEnd \notin Users /\ IsFiniteSet(Users)
    /\ MaxDeposits \in Nat /\ MaxEpoch \in Nat /\ MaxScale \in Nat

VARIABLES
    pool,        \* P, S, G, scale, epoch, the totals and the last errors
    deposits,    \* what each user provided, its front end and its snapshot
    stakes,      \* per tag, the zero address included: the deposits tagged
    rates,       \* kickback rate of each registered front end
    issuance,    \* CommunityIssuance: cap, issued, start and balance
    now,         \* minutes
    offsets,     \* offsets so far
    history      \* what a unit of deposit earned in all, and tokens issued but not sent

vars == <<pool, deposits, stakes, rates, issuance, now, offsets, history>>

Tags == Users \cup {NoFrontEnd}
Registered == DOMAIN rates

Epochs == 0 .. MaxEpoch
Scales == 0 .. MaxScale + 1

NoSnapshot == [P |-> 0, S |-> 0, G |-> 0, scale |-> 0, epoch |-> 0]
NoDeposit == [value |-> 0, tag |-> NoFrontEnd, snap |-> NoSnapshot]
NoStake == [value |-> 0, snap |-> NoSnapshot]

-----------------------------------------------------------------------------
(* What deposits and front end stakes have become.                         *)

\* mutant: a change of scale since the snapshot is forgotten.
CompoundedUnscaled(p, value, snap) ==
    IF value = 0 \/ snap.epoch < p.epoch THEN 0
    ELSE (value * p.P) \div snap.P

\* _getCompoundedStakeFromSnapshots: what is left after the losses; 0 after two
\* changes of scale, and below a SCALE_FACTOR-th of the value.
Compounded(p, value, snap) ==
    IF value = 0 \/ snap.epoch < p.epoch THEN 0
    ELSE LET diff == p.scale - snap.scale
             left == CASE diff = 0 -> (value * p.P) \div snap.P
                       [] diff = 1 -> ((value * p.P) \div snap.P) \div SCALE_FACTOR
                       [] OTHER -> 0
         IN IF left < value \div SCALE_FACTOR THEN 0 ELSE left

\* What one of the sums (S or G) has earned for a value since its snapshot, of
\* which it counts the scale of the snapshot and the next.
Earned(sums, value, snap, start) ==
    IF value = 0 THEN 0
    ELSE LET first == sums[snap.epoch][snap.scale] - start
             second == sums[snap.epoch][snap.scale + 1] \div SCALE_FACTOR
         IN ((value * (first + second)) \div snap.P) \div DECIMAL_PRECISION

Deposit(u) == Compounded(pool, deposits[u].value, deposits[u].snap)

FILGain(p, u) == Earned(p.S, deposits[u].value, deposits[u].snap, deposits[u].snap.S)

\* The depositor's part of the protocol tokens, and the front end's.
TokenGain(p, u) ==
    LET d == deposits[u]
        rate == IF d.tag = NoFrontEnd THEN DECIMAL_PRECISION ELSE rates[d.tag]
    IN (rate * Earned(p.G, d.value, d.snap, d.snap.G)) \div DECIMAL_PRECISION

\* mutant: the front end gets what its depositors get, too.
FrontEndGainInFull(p, f) == Earned(p.G, stakes[f].value, stakes[f].snap, stakes[f].snap.G)

FrontEndGain(p, f) ==
    ((DECIMAL_PRECISION - rates[f])
        * Earned(p.G, stakes[f].value, stakes[f].snap, stakes[f].snap.G))
      \div DECIMAL_PRECISION

Snapshot(p) == [P |-> p.P, S |-> p.S[p.epoch][p.scale], G |-> p.G[p.epoch][p.scale],
                scale |-> p.scale, epoch |-> p.epoch]

\* _updateDepositAndSnapshots and its sibling: a value of 0 is deleted.
NewDeposit(p, value, tag) ==
    IF value = 0 THEN NoDeposit
    ELSE [value |-> value, tag |-> tag, snap |-> Snapshot(p)]

\* A front end's snapshot has no S: it earns protocol tokens only.
NewStake(p, value) ==
    IF value = 0 THEN NoStake
    ELSE [value |-> value, snap |-> [Snapshot(p) EXCEPT !.S = 0]]

-----------------------------------------------------------------------------
(* The issuance of protocol tokens.                                        *)

\* What the cap has issued in all by now.
LatestIssued ==
    (issuance.cap * (DECIMAL_PRECISION - decPow(ISSUANCE_FACTOR, now - issuance.start)))
        \div DECIMAL_PRECISION

\* issueProtocolToken: its subtraction must not be negative.
Issues == LatestIssued >= issuance.issued

\* Without deposits, what is issued goes to nobody, and is not sent.
ForDeposits == IF pool.total = 0 THEN 0 ELSE LatestIssued - issuance.issued

\* mutant: what was given out is kept as the error, too.
TokensPerUnitAgain(p, amount) ==
    LET numerator == amount * DECIMAL_PRECISION + p.tokenError
    IN [perUnit |-> numerator \div p.total, error |-> numerator]

\* The tokens per unit, and the remainder, for the next one.
TokensPerUnit(p, amount) ==
    LET numerator == amount * DECIMAL_PRECISION + p.tokenError
        perUnit == numerator \div p.total
    IN [perUnit |-> perUnit, error |-> numerator - perUnit * p.total]

\* _triggerProtocolTokenIssuance, with which every operation begins, and the
\* _updateG it calls.
Issued ==
    IF ForDeposits = 0 THEN pool
    ELSE LET tokens == TokensPerUnit(pool, ForDeposits)
         IN [pool EXCEPT !.G[pool.epoch][pool.scale] = @ + tokens.perUnit * pool.P,
                         !.tokenError = tokens.error]

HistoryOfIssued ==
    [history EXCEPT !.unsent = @ + ForDeposits,
        !.tokensPerUnit = @ + IF ForDeposits = 0 THEN 0
                              ELSE TokensPerUnit(pool, ForDeposits).perUnit]

-----------------------------------------------------------------------------
(* The operations of depositors.                                           *)

\* What an operation of user u does to front end f's stake and to the balances,
\* beside the deposit itself: gains are paid, `added` is provided (or taken out
\* if it is negative), the stake and the deposit get new snapshots.  A transfer
\* or a subtraction that is not covered reverts the operation.
Operation(u, f, added) ==
    LET p == Issued
        gain == FILGain(p, u)
        toFrontEnd == IF f = NoFrontEnd THEN 0 ELSE FrontEndGain(p, f)
        toUser == IF deposits[u].value = 0 THEN 0 ELSE TokenGain(p, u)
        stake == Compounded(p, stakes[f].value, stakes[f].snap)
    IN /\ Issues
       /\ toFrontEnd + toUser <= issuance.held
       /\ stake + added >= 0
       /\ p.total + added >= 0
       /\ gain <= p.FIL
       /\ pool' = [p EXCEPT !.total = @ + added, !.FIL = @ - gain]
       /\ deposits' = [deposits EXCEPT ![u] = NewDeposit(p, Deposit(u) + added, f)]
       /\ stakes' = [stakes EXCEPT ![f] = NewStake(p, stake + added)]
       /\ issuance' = [issuance EXCEPT !.issued = LatestIssued,
                                       !.held = @ - toFrontEnd - toUser]
       /\ history' = [HistoryOfIssued EXCEPT !.unsent = @ - toFrontEnd - toUser]
    /\ UNCHANGED <<rates, now, offsets>>

\* A new deposit chooses its front end; an old one keeps it.
provideToSP(u, amount, tag) ==
    /\ tag \in Registered \cup {NoFrontEnd}
    /\ u \notin Registered
    /\ amount > 0 /\ pool.total + amount <= MaxDeposits
    /\ Operation(u, IF deposits[u].value = 0 THEN tag ELSE deposits[u].tag, amount)

\* With an amount of 0 only the gains are withdrawn; the price may forbid any
\* other amount.
withdrawFromSP(u, amount) ==
    /\ deposits[u].value > 0
    /\ Operation(u, deposits[u].tag, -Min({amount, Deposit(u)}))

\* The collateral goes to the user's trove: for the pool, as if it was sent.
withdrawFILGainToTrove(u) ==
    /\ deposits[u].value > 0
    /\ FILGain(pool, u) > 0
    /\ Operation(u, deposits[u].tag, 0)

registerFrontEnd(f, rate) ==
    /\ f \notin Registered
    /\ deposits[f].value = 0
    /\ rates' = [x \in Registered \cup {f} |-> IF x = f THEN rate ELSE rates[x]]
    /\ UNCHANGED <<pool, deposits, stakes, issuance, now, offsets, history>>

-----------------------------------------------------------------------------
(* An offset of debt, by the trove manager.                                *)

\* mutant: the division is not rounded against the depositors.
DebtTokenLossRoundedDown(p, debt) ==
    IF debt = p.total THEN [perUnit |-> DECIMAL_PRECISION, error |-> 0]
    ELSE [perUnit |-> (debt * DECIMAL_PRECISION) \div p.total, error |-> 0]

\* The loss per unit, rounded up by 1; the excess is the next one's rebate.
DebtTokenLoss(p, debt) ==
    IF debt = p.total THEN [perUnit |-> DECIMAL_PRECISION, error |-> 0]
    ELSE LET numerator == debt * DECIMAL_PRECISION - p.lossError
             perUnit == numerator \div p.total + 1
         IN [perUnit |-> perUnit, error |-> perUnit * p.total - numerator]

\* mutant: what was given out is kept as the error, too.
FILPerUnitAgain(p, coll) ==
    LET numerator == coll * DECIMAL_PRECISION + p.FILError
    IN [perUnit |-> numerator \div p.total, error |-> numerator]

\* The gain per unit, and the remainder, for the next one.
FILPerUnit(p, coll) ==
    LET numerator == coll * DECIMAL_PRECISION + p.FILError
        perUnit == numerator \div p.total
    IN [perUnit |-> perUnit, error |-> numerator - perUnit * p.total]

\* The product after a loss: P, scale and epoch.
NewProduct(p, loss) ==
    LET factor == DECIMAL_PRECISION - loss
        product == (p.P * factor) \div DECIMAL_PRECISION
    IN IF factor = 0
         THEN [P |-> DECIMAL_PRECISION, scale |-> 0, epoch |-> p.epoch + 1]
       ELSE IF product < SCALE_FACTOR
         THEN [P |-> (p.P * factor * SCALE_FACTOR) \div DECIMAL_PRECISION,
               scale |-> p.scale + 1, epoch |-> p.epoch]
       ELSE [P |-> product, scale |-> p.scale, epoch |-> p.epoch]

\* S is raised by what the deposits were before the loss.
MarginalFILGain(p, gain) ==
    [p.S EXCEPT ![p.epoch][p.scale] = @ + gain * p.P]

\* A debt the pool can pay in part pays what the pool has.
Offsets == IF pool.total = 0 THEN {} ELSE {Min({debt, pool.total}) : debt \in Debts}

offset(debt, coll) ==
    LET p == Issued
        loss == DebtTokenLoss(p, debt)
        gain == FILPerUnit(p, coll)
        product == NewProduct(p, loss.perUnit)
    IN /\ Issues
       /\ debt * DECIMAL_PRECISION >= p.lossError
       /\ loss.perUnit <= DECIMAL_PRECISION
       /\ product.P > 0
       /\ product.epoch <= MaxEpoch /\ product.scale <= MaxScale
       /\ p.FIL + coll <= MaxFIL
       /\ pool' = [p EXCEPT !.P = product.P, !.scale = product.scale,
                            !.epoch = product.epoch,
                            !.S = MarginalFILGain(p, gain.perUnit),
                            !.FILError = gain.error, !.lossError = loss.error,
                            !.total = @ - debt, !.FIL = @ + coll]
       /\ issuance' = [issuance EXCEPT !.issued = LatestIssued]
       /\ history' = [HistoryOfIssued EXCEPT !.FILPerUnit = @ + gain.perUnit]
    /\ offsets < MaxOffsets /\ offsets' = offsets + 1
    /\ UNCHANGED <<deposits, stakes, rates, now>>

-----------------------------------------------------------------------------
(* The owner of the issuance, and time.                                    *)

\* updateProtocolTokenSupplyCap: the balance, with what is still to be sent of
\* it, becomes the cap of a new curve.
updateProtocolTokenSupplyCap ==
    /\ issuance.held # issuance.cap
    /\ issuance' = [issuance EXCEPT !.cap = issuance.held, !.issued = 0, !.start = now]
    /\ history' = [history EXCEPT !.countedTwice = history.unsent]
    /\ UNCHANGED <<pool, deposits, stakes, rates, now, offsets>>

Supply ==
    /\ \E amount \in Supplies :
        /\ issuance.held + amount <= MaxSupply
        /\ issuance' = [issuance EXCEPT !.held = @ + amount]
    /\ UNCHANGED <<pool, deposits, stakes, rates, now, offsets, history>>

Minute ==
    /\ now < MaxMinutes
    /\ now' = now + 1
    /\ UNCHANGED <<pool, deposits, stakes, rates, issuance, offsets, history>>

Init ==
    /\ pool = [P |-> DECIMAL_PRECISION, scale |-> 0, epoch |-> 0,
               S |-> [e \in Epochs |-> [s \in Scales |-> 0]],
               G |-> [e \in Epochs |-> [s \in Scales |-> 0]],
               FIL |-> 0, total |-> 0,
               FILError |-> 0, lossError |-> 0, tokenError |-> 0]
    /\ deposits = [u \in Users |-> NoDeposit]
    /\ stakes = [f \in Tags |-> NoStake]
    /\ rates = [f \in {} |-> 0]
    /\ issuance = [cap |-> 0, issued |-> 0, start |-> 0, held |-> 0]
    /\ now = 0 /\ offsets = 0
    /\ history = [FILPerUnit |-> 0, tokensPerUnit |-> 0, unsent |-> 0, countedTwice |-> 0]

Next ==
    \/ \E u \in Users, amount \in Provided, tag \in Tags : provideToSP(u, amount, tag)
    \/ \E u \in Users, amount \in Withdrawn : withdrawFromSP(u, amount)
    \/ \E u \in Users : withdrawFILGainToTrove(u)
    \/ \E f \in Users, rate \in KickbackRates : registerFrontEnd(f, rate)
    \/ \E debt \in Offsets, coll \in Colls : offset(debt, coll)
    \/ updateProtocolTokenSupplyCap
    \/ Supply
    \/ Minute

Spec == Init /\ [][Next]_vars

-----------------------------------------------------------------------------
(* Properties.                                                             *)

TypeOK ==
    /\ pool.P \in 1 .. DECIMAL_PRECISION
    /\ pool.scale \in 0 .. MaxScale /\ pool.epoch \in Epochs
    /\ pool.total \in 0 .. MaxDeposits /\ pool.FIL \in 0 .. MaxFIL
    /\ \A u \in Users : deposits[u].value \in Nat /\ deposits[u].tag \in Tags
    /\ \A f \in Tags : stakes[f].value \in Nat
    /\ {pool.lossError, pool.FILError, pool.tokenError} \subseteq 0 .. MaxDeposits
    /\ Registered \subseteq Users
    /\ issuance.held \in 0 .. MaxSupply

SumOfDeposits(users) == Total([u \in users |-> Deposit(u)])

\* The deposits exceed the pool's debt tokens by less than the precision of P:
\* by one unit of it for each token the pool ever held.
DepositsNearlyCovered ==
    (SumOfDeposits(Users) - pool.total) * DECIMAL_PRECISION <= MaxDeposits

\* The claim of the comment at StabilityPool.sol:588, that the error of the loss
\* per unit "favors the Stability Pool": the deposits can all be withdrawn.
DepositsCovered == SumOfDeposits(Users) <= pool.total

SumOfFILGains == Total([u \in Users |-> FILGain(pool, u)])

\* The collateral gains of all depositors exceed what the pool holds by no more
\* than the excess of the deposits (DepositsNearlyCovered) earned: by a unit of
\* the precision for each token the pool ever held, times the FIL per unit of
\* all offsets (StabilityPool.sol:577-634, 698-722), through changes of scale
\* and epoch, while depositors come and leave between two liquidations.
FILGainsNearlyCovered ==
    (SumOfFILGains - pool.FIL) * DECIMAL_PRECISION * DECIMAL_PRECISION
        <= MaxDeposits * history.FILPerUnit

\* The same without an allowance, which does not hold: the pool has FIL for
\* every gain.
FILGainsCovered == SumOfFILGains <= pool.FIL

\* Gains of protocol tokens, paid at the next operation.
TokenGains ==
    MapThenSumSet(LAMBDA u : TokenGain(pool, u), {u \in Users : deposits[u].value > 0})
        + MapThenSumSet(LAMBDA f : FrontEndGain(pool, f), Registered)

\* The protocol tokens that depositors and front ends earned, with the same
\* allowance, and those the curve has still to issue, are held, but for those
\* that were issued and not sent when the cap was set to the balance, which
\* counts them again (CommunityIssuance.sol:73-87): a missing token is one of
\* them, whatever is issued, claimed and supplied before and after.
TokenGainsNearlyCovered ==
    (TokenGains + issuance.cap - issuance.issued - issuance.held - history.countedTwice)
            * DECIMAL_PRECISION * DECIMAL_PRECISION
        <= MaxDeposits * history.tokensPerUnit

\* The same without those, which does not hold.
TokenGainsAreHeld ==
    (TokenGains - issuance.held) * DECIMAL_PRECISION * DECIMAL_PRECISION
        <= MaxDeposits * history.tokensPerUnit

\* The claim of the comment at StabilityPool.sol:827, that a front end's stake is
\* the sum of its deposits: it is at least that, so that every deposit can be
\* subtracted from it when it is withdrawn.
FrontEndStakeCoversDeposits ==
    \A f \in Tags :
        SumOfDeposits({u \in Users : deposits[u].value > 0 /\ deposits[u].tag = f})
            <= Compounded(pool, stakes[f].value, stakes[f].snap)

\* The assertion at StabilityPool.sol:653: no offset brings P to 0.
ProductStaysPositive ==
    \A debt \in Offsets : NewProduct(pool, DebtTokenLoss(pool, debt).perUnit).P > 0

\* What others do, and liquidations at any scale, never make a deposit grow nor
\* take from the collateral it earned.
OthersNeverTakeGains ==
    [][\A u \in Users : deposits'[u] = deposits[u] =>
        /\ Deposit(u)' <= Deposit(u)
        /\ FILGain(pool, u)' >= FILGain(pool, u)]_vars
=============================================================================
