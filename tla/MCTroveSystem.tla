---------------------------- MODULE MCTroveSystem ----------------------------
(* Small instances of the trove system for TLC. *)
EXTENDS TroveProperties

CONSTANTS u1, u2, u3

Symmetry == Permutations(Users)

\* Each user alone, and pairs in both orders: a pair can name a closed trove.
SingleTroves == {<<u>> : u \in Users}
Pairs        == SingleTroves \cup {<<u, v>> : u \in Users, v \in Users}
NoArrays     == {}

=============================================================================
