---------------------------- MODULE SortedTroves ----------------------------
(***************************************************************************)
(* The doubly linked list of troves (SortedTroves.sol), with its hints: a  *)
(* caller proposes a pair of neighbours; if the pair is not a valid place  *)
(* any more, the list is walked from whichever of the two is of use.       *)
(*                                                                         *)
(* The list is a promise about places, not about order: the nominal ratios *)
(* drift under it.  It implements the sequence of TroveList, which is what *)
(* the other modules of the system use.                                    *)
(***************************************************************************)
EXTENDS Integers, Sequences, FiniteSets

CONSTANTS
    Ids,        \* owners of troves
    Null,       \* the zero address
    NICRs,      \* nominal ratios
    Infinite,   \* the ratio of a trove without debt
    MaxSize     \* the most the list holds

ASSUME ListAssumption ==
    /\ Null \notin Ids /\ IsFiniteSet(Ids)
    /\ NICRs \subseteq Nat \ {0}
    /\ Infinite \in Nat /\ \A n \in NICRs : n <= Infinite
    /\ MaxSize \in Nat

VARIABLES
    nodes,   \* per id: exists, next, prev
    head,
    tail,
    size,
    nicr     \* the trove manager's nominal ratio of each trove

vars == <<nodes, head, tail, size, nicr>>

NoNode == [exists |-> FALSE, next |-> Null, prev |-> Null]

contains(ns, id) == ns[id].exists

\* The zero address has no debt.
getNominalICR(id) == IF id = Null THEN Infinite ELSE nicr[id]

-----------------------------------------------------------------------------
(* A list is a record of the variables: an insertion that follows a        *)
(* removal in the same transaction sees its result.                        *)

List == [nodes |-> nodes, head |-> head, tail |-> tail, size |-> size]

Becomes(l) ==
    nodes' = l.nodes /\ head' = l.head /\ tail' = l.tail /\ size' = l.size

\* mutant: the ratio of the next node is not compared.
ValidAfterPrev(l, ratio, prev, next) ==
    CASE prev = Null /\ next = Null -> l.size = 0
      [] prev = Null /\ next # Null -> l.head = next /\ ratio >= getNominalICR(next)
      [] prev # Null /\ next = Null -> l.tail = prev /\ ratio <= getNominalICR(prev)
      [] OTHER -> l.nodes[prev].next = next /\ getNominalICR(prev) >= ratio

\* _validInsertPosition: neighbours, and the ratio between theirs.
ValidInsertPosition(l, ratio, prev, next) ==
    CASE prev = Null /\ next = Null -> l.size = 0
      [] prev = Null /\ next # Null -> l.head = next /\ ratio >= getNominalICR(next)
      [] prev # Null /\ next = Null -> l.tail = prev /\ ratio <= getNominalICR(prev)
      [] OTHER -> /\ l.nodes[prev].next = next
                  /\ getNominalICR(prev) >= ratio /\ ratio >= getNominalICR(next)

\* The walk down from a node, to the first place that is valid or off the end.
DescendList(l, ratio, start) ==
    LET walk[prev \in Ids \cup {Null}] ==
            LET next == l.nodes[prev].next
            IN IF prev = Null \/ ValidInsertPosition(l, ratio, prev, next)
                 THEN <<prev, next>> ELSE walk[next]
    IN IF l.head = start /\ ratio >= getNominalICR(start) THEN <<Null, start>>
       ELSE walk[start]

AscendList(l, ratio, start) ==
    LET walk[next \in Ids \cup {Null}] ==
            LET prev == l.nodes[next].prev
            IN IF next = Null \/ ValidInsertPosition(l, ratio, prev, next)
                 THEN <<prev, next>> ELSE walk[prev]
    IN IF l.tail = start /\ ratio <= getNominalICR(start) THEN <<start, Null>>
       ELSE walk[start]

\* mutant: the hints are believed to be in the list.
FindFromStaleHint(l, ratio, prevHint, nextHint) ==
    LET prev == IF prevHint # Null /\ ratio <= getNominalICR(prevHint)
                  THEN prevHint ELSE Null
        next == IF nextHint # Null /\ ratio >= getNominalICR(nextHint)
                  THEN nextHint ELSE Null
    IN CASE prev = Null /\ next = Null -> DescendList(l, ratio, l.head)
         [] prev = Null /\ next # Null -> AscendList(l, ratio, next)
         [] OTHER -> DescendList(l, ratio, prev)

\* _findInsertPosition: a hint counts if it is in the list and on its side.
FindInsertPosition(l, ratio, prevHint, nextHint) ==
    LET prev == IF /\ prevHint # Null /\ contains(l.nodes, prevHint)
                   /\ ratio <= getNominalICR(prevHint)
                  THEN prevHint ELSE Null
        next == IF /\ nextHint # Null /\ contains(l.nodes, nextHint)
                   /\ ratio >= getNominalICR(nextHint)
                  THEN nextHint ELSE Null
    IN CASE prev = Null /\ next = Null -> DescendList(l, ratio, l.head)
         [] prev = Null /\ next # Null -> AscendList(l, ratio, next)
         [] OTHER -> DescendList(l, ratio, prev)

\* The list with id between prev and next, or at the end that one of them is.
Linked(l, id, prev, next) ==
    LET new == [exists |-> TRUE, next |-> next, prev |-> prev]
    IN CASE prev = Null /\ next = Null ->
              [nodes |-> [l.nodes EXCEPT ![id].exists = TRUE],
               head |-> id, tail |-> id, size |-> l.size + 1]
         [] prev = Null /\ next # Null ->
              [nodes |-> [l.nodes EXCEPT ![id] = [new EXCEPT !.next = l.head],
                                         ![l.head].prev = id],
               head |-> id, tail |-> l.tail, size |-> l.size + 1]
         [] prev # Null /\ next = Null ->
              [nodes |-> [l.nodes EXCEPT ![id] = [new EXCEPT !.prev = l.tail],
                                         ![l.tail].next = id],
               head |-> l.head, tail |-> id, size |-> l.size + 1]
         [] OTHER ->
              [nodes |-> [l.nodes EXCEPT ![id] = new, ![prev].next = id, ![next].prev = id],
               head |-> l.head, tail |-> l.tail, size |-> l.size + 1]

\* _remove: the head, the tail, a node in between, or the only one.
Unlinked(l, id) ==
    LET before == l.nodes[id].prev
        after == l.nodes[id].next
        links == CASE l.size <= 1 -> l.nodes
                   [] l.size > 1 /\ id = l.head -> [l.nodes EXCEPT ![after].prev = Null]
                   [] l.size > 1 /\ id # l.head /\ id = l.tail
                        -> [l.nodes EXCEPT ![before].next = Null]
                   [] OTHER -> [l.nodes EXCEPT ![before].next = after,
                                               ![after].prev = before]
    IN [nodes |-> [links EXCEPT ![id] = NoNode],
        head |-> IF l.size <= 1 THEN Null ELSE IF id = l.head THEN after ELSE l.head,
        tail |-> IF l.size <= 1 THEN Null
                 ELSE IF id # l.head /\ id = l.tail THEN before ELSE l.tail,
        size |-> l.size - 1]

-----------------------------------------------------------------------------
(* The operations, each with any pair of hints.                            *)

\* _insert: the ratio of the node is the trove manager's by then.
InsertInto(l, id, ratio, prevHint, nextHint) ==
    LET place == IF ValidInsertPosition(l, ratio, prevHint, nextHint)
                   THEN <<prevHint, nextHint>>
                   ELSE FindInsertPosition(l, ratio, prevHint, nextHint)
    IN /\ l.size # MaxSize
       /\ ~contains(l.nodes, id)
       /\ ratio > 0
       /\ Becomes(Linked(l, id, place[1], place[2]))
       /\ nicr' = [nicr EXCEPT ![id] = ratio]

insert(id, ratio, prevHint, nextHint) ==
    InsertInto(List, id, ratio, prevHint, nextHint)

remove(id) ==
    /\ contains(nodes, id)
    /\ Becomes(Unlinked(List, id))
    /\ UNCHANGED nicr

reInsert(id, ratio, prevHint, nextHint) ==
    /\ contains(nodes, id)
    /\ ratio > 0
    /\ InsertInto(Unlinked(List, id), id, ratio, prevHint, nextHint)

\* Rewards are redistributed: the ratios change, the list does not.
Redistribution ==
    /\ nicr' \in [Ids -> NICRs]
    /\ UNCHANGED <<nodes, head, tail, size>>

Init ==
    /\ nodes = [id \in Ids \cup {Null} |-> NoNode]
    /\ head = Null /\ tail = Null /\ size = 0
    /\ nicr \in [Ids -> NICRs]

Hints == Ids \cup {Null}

Next ==
    \/ \E id \in Ids, ratio \in NICRs, prevHint, nextHint \in Hints :
        insert(id, ratio, prevHint, nextHint)
    \/ \E id \in Ids, ratio \in NICRs, prevHint, nextHint \in Hints :
        reInsert(id, ratio, prevHint, nextHint)
    \/ \E id \in Ids : remove(id)
    \/ Redistribution

Spec == Init /\ [][Next]_vars

-----------------------------------------------------------------------------
(* Properties.                                                             *)

\* The nodes from a node on, along the next links; a loop is cut where it shows.
Chain(ns, start) ==
    LET from[n \in Nat] == [id \in Ids \cup {Null} |->
            IF id = Null \/ n = 0 THEN <<>> ELSE <<id>> \o from[n - 1][ns[id].next]]
    IN from[Cardinality(Ids) + 1][start]

Forward == Chain(nodes, head)

Sequence == INSTANCE TroveList WITH list <- Forward

\* Whatever the hints, the linked list does what the sequence promises: nothing
\* is lost, nothing else moves, and a node is placed in order with the two that
\* are its neighbours then, even if the list is out of order elsewhere.
ImplementsSequence == Sequence!Spec

Sorted == \A i \in 1 .. Len(Forward) - 1 : nicr[Forward[i]] >= nicr[Forward[i + 1]]

\* An operation on a sorted list leaves it sorted, whichever stale hints it gets:
\* only drifting ratios disorder it.
OperationsKeepOrder == [][(Sorted /\ Forward # Forward') => (Sorted' = TRUE)]_vars
=============================================================================
