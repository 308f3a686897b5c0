---------------------------- MODULE DecimalPower ----------------------------
(***************************************************************************)
(* The exponentiation of ProtocolMath.sol, by which the base rate decays   *)
(* and the issuance of the protocol token slows down: a decimal to the     *)
(* power of a number of minutes, by squaring, each product rounded to the  *)
(* nearest.                                                                *)
(***************************************************************************)
EXTENDS Integers

CONSTANTS
    DECIMAL_PRECISION,    \* 1e18: the scale of decimals
    MAX_MINUTES           \* 525600000: a thousand years

\* A product of two decimals, rounded to the nearest, half a unit up.
decMul(x, y) == (x * y + DECIMAL_PRECISION \div 2) \div DECIMAL_PRECISION

\* The variables of the loop.
LoopStates == [x : Nat, y : Nat, n : Nat]

\* An iteration: x is squared, and y takes in the x of an odd n.
Iteration(s) ==
    IF s.n % 2 = 0
      THEN [x |-> decMul(s.x, s.x), y |-> s.y, n |-> s.n \div 2]
      ELSE [x |-> decMul(s.x, s.x), y |-> decMul(s.x, s.y), n |-> (s.n - 1) \div 2]

\* What the loop returns from the state s.
Squaring[s \in LoopStates] ==
    IF s.n > 1 THEN Squaring[Iteration(s)] ELSE decMul(s.x, s.y)

decPow(base, minutes) ==
    IF minutes = 0 THEN DECIMAL_PRECISION
    ELSE Squaring[[x |-> base, y |-> DECIMAL_PRECISION,
                   n |-> IF minutes > MAX_MINUTES THEN MAX_MINUTES ELSE minutes]]
=============================================================================
