---------------------------- MODULE HintHelpers ----------------------------
(***************************************************************************)
(* The hints a redeemer asks for off chain before redeemCollateral: a      *)
(* simulation of the walk over the list, on the storage of that moment.    *)
(***************************************************************************)
EXTENDS TroveManager

\* The first trove at or above MCR from the tail, as its place in the list; 0 is
\* the null address.
IsFirstRedemptionHint(first) ==
    /\ first = 0 \/ getCurrentICR(sortedTroves[first]) >= MCR
    /\ \A i \in first + 1 .. Len(sortedTroves) : getCurrentICR(sortedTroves[i]) < MCR

StoredNetDebt(u) == NetDebt(Troves[u].debt)   \* mutant: without the pending rewards
HintNetDebt(u) == NetDebt(Troves[u].debt) + getPendingDebtReward(u)

\* What the partial redemption of u may take: it leaves the minimum net debt.
maxRedeemableDebtToken(u, remaining) == MinOf(remaining, HintNetDebt(u) - MIN_NET_DEBT)

PartialNICR(u, lot) ==
    ComputeNominalCR(EntireColl(u) - (lot * DECIMAL_PRECISION) \div price,
                     CompositeDebt(HintNetDebt(u) - lot))

\* The walk goes from there towards the head.
Visited(first, n) == sortedTroves[first + 1 - n]

NetDebtOfFirst(first, n) ==
    LET sum[k \in 0 .. n] ==
            IF k = 0 THEN 0 ELSE sum[k - 1] + HintNetDebt(Visited(first, k))
    IN  sum[n]

\* It redeems as many troves whole as the amount lasts for.
RedeemsWhole(first, visits, amount) ==
    {n \in 0 .. visits :
        /\ NetDebtOfFirst(first, n) <= amount
        /\ n = visits \/ NetDebtOfFirst(first, n + 1) > amount}

\* The next one is redeemed in part, if that can leave it enough debt.
Hints(first, visits, whole, amount) ==
    LET redeemed == NetDebtOfFirst(first, whole)
        next     == Visited(first, whole + 1)
        lot      == maxRedeemableDebtToken(next, amount - redeemed)
        partial  == /\ whole < visits
                    /\ amount > redeemed
                    /\ HintNetDebt(next) > MIN_NET_DEBT
    IN  [firstRedemptionHint |-> first,
         partialRedemptionHintNICR |-> IF partial THEN PartialNICR(next, lot) ELSE 0,
         truncatedDebtTokenAmount |-> redeemed + (IF partial THEN lot ELSE 0)]

Visits(first, maxIterations) ==
    IF maxIterations = 0 THEN first ELSE MinOf(maxIterations, first)

\* The set of the hints returned: there is one.
getRedemptionHints(amount, maxIterations) ==
    UNION {{Hints(first, Visits(first, maxIterations), whole, amount) :
              whole \in RedeemsWhole(first, Visits(first, maxIterations), amount)} :
            first \in {i \in 0 .. Len(sortedTroves) : IsFirstRedemptionHint(i)}}

=============================================================================
