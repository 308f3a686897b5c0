-------------------------------- MODULE Sums --------------------------------
(***************************************************************************)
(* The sum of a function with values in Nat, as the size of a set: element *)
(* x of the domain contributes f[x] pairs.  Written this way, and not as a *)
(* fold, what one changed value does to a sum follows from the theorems on *)
(* cardinality, without an induction over the domain.                      *)
(***************************************************************************)
EXTENDS Integers, FiniteSets

Units(f, x) == {x} \X (1..f[x])

Total(f) == Cardinality(UNION {Units(f, x) : x \in DOMAIN f})

=============================================================================
