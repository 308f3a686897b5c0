---------------------------- MODULE ProtocolMath ----------------------------
(***************************************************************************)
(* The constants and the pure arithmetic every contract of the system      *)
(* shares: the ProtocolMath library and the ProtocolBase contract.         *)
(*                                                                         *)
(* The precisions and ratios are CONSTANTS, so that the model checker can  *)
(* run with small numbers in which floor division loses something at every *)
(* step; the assumptions say what the deployed values satisfy.             *)
(* Multiplication and addition are exact: 256-bit overflow reverts in the  *)
(* code (SafeMath) and is out of reach of any amount in circulation.       *)
(***************************************************************************)
EXTENDS Integers

CONSTANTS
    DECIMAL_PRECISION,   \* 1e18: the scale of prices, ratios and rates
    NICR_PRECISION,      \* 1e20: the scale of nominal (price-free) ratios
    MAX_UINT,            \* 2^256 - 1: the "infinite" ratio of a debt of 0
    MCR,                 \* minimum collateral ratio of a trove (110%)
    CCR,                 \* critical ratio of the system (150%)
    PERCENT_DIVISOR,     \* share of collateral paid to liquidators
    GAS_COMPENSATION,    \* debt token reserved in the gas pool per trove
    MIN_NET_DEBT         \* least debt of a trove, its reserve excluded

_100pct == DECIMAL_PRECISION

ASSUME PrecisionAssumption ==
    /\ DECIMAL_PRECISION \in Nat \ {0}
    /\ NICR_PRECISION \in Nat \ {0}
    /\ PERCENT_DIVISOR \in Nat \ {0}

ASSUME RatioAssumption ==
    /\ MCR \in Nat /\ CCR \in Nat /\ MAX_UINT \in Nat
    /\ DECIMAL_PRECISION < MCR /\ MCR < CCR /\ CCR < MAX_UINT

ASSUME DebtAssumption ==
    /\ GAS_COMPENSATION \in Nat \ {0}
    /\ MIN_NET_DEBT \in Nat \ {0}

-----------------------------------------------------------------------------

MinOf(a, b) == IF a < b THEN a ELSE b

ComputeNominalCR(coll, debt) ==
    IF debt > 0 THEN (coll * NICR_PRECISION) \div debt ELSE MAX_UINT

ComputeCR(coll, debt, price) ==
    IF debt > 0 THEN (coll * price) \div debt ELSE MAX_UINT

CompositeDebtNoReserve(netDebt) == netDebt   \* mutant: the reserve is not owed
CompositeDebt(netDebt) == netDebt + GAS_COMPENSATION

NetDebt(debt) == debt - GAS_COMPENSATION

CollGasCompensation(coll) == coll \div PERCENT_DIVISOR

=============================================================================
