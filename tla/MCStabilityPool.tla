-------------------------- MODULE MCStabilityPool --------------------------
(***************************************************************************)
(* Instances of the stability pool.                                        *)
(***************************************************************************)
EXTENDS StabilityPool, TLC

\* Users differ in nothing but what they do.
UserSymmetry == Permutations(Users)
=============================================================================
