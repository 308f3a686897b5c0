----------------------------- MODULE TroveList -----------------------------
(***************************************************************************)
(* What SortedTroves.sol promises the trove manager: a sequence of troves, *)
(* into which one is inserted where it is in order with its neighbours,    *)
(* from which one is removed, or which is left alone while the nominal     *)
(* ratios drift (rewards are redistributed without a re-ordering).         *)
(***************************************************************************)
EXTENDS Integers, Sequences, SequencesExt

CONSTANTS
    Ids,        \* owners of troves
    NICRs,      \* nominal ratios
    MaxSize     \* the most the list holds

VARIABLES list, nicr

listVars == <<list, nicr>>

\* Where a ratio is in order with its neighbours.
Places(seq, ratio) ==
    {i \in 1 .. Len(seq) + 1 :
        /\ i = 1 \/ nicr[seq[i - 1]] >= ratio
        /\ i = Len(seq) + 1 \/ ratio >= nicr[seq[i]]}

Without(seq, id) == RemoveAt(seq, CHOOSE i \in 1 .. Len(seq) : seq[i] = id)

Place(seq, id, ratio) ==
    /\ ratio > 0 /\ Len(seq) < MaxSize
    /\ \E i \in Places(seq, ratio) : list' = InsertAt(seq, i, id)
    /\ nicr' = [nicr EXCEPT ![id] = ratio]

InsertTrove(id, ratio) == ~Contains(list, id) /\ Place(list, id, ratio)

RemoveTrove(id) ==
    /\ Contains(list, id)
    /\ list' = Without(list, id)
    /\ UNCHANGED nicr

ReInsertTrove(id, ratio) == Contains(list, id) /\ Place(Without(list, id), id, ratio)

Drift == UNCHANGED list /\ nicr' \in [Ids -> NICRs]

Init == list = <<>> /\ nicr \in [Ids -> NICRs]

Next ==
    \/ \E id \in Ids, ratio \in NICRs : InsertTrove(id, ratio) \/ ReInsertTrove(id, ratio)
    \/ \E id \in Ids : RemoveTrove(id)
    \/ Drift

Spec == Init /\ [][Next]_listVars
=============================================================================
