----------------------------- MODULE ListProofs -----------------------------
(***************************************************************************)
(* Proofs that the doubly linked list of SortedTroves implements the       *)
(* sequence of TroveList, whatever the hints, and that its operations keep *)
(* an order they find.                                                     *)
(*                                                                         *)
(* The invariant is that the list represents some sequence of distinct     *)
(* users (Represents): each node of it links to the one before and to the  *)
(* one after, and no other node is linked at all.  From it follows that    *)
(* the links read from the head are that sequence (ChainIs), that a pair   *)
(* of neighbours is valid exactly at a place of the sequence where the     *)
(* ratio is in order (ValidIsPlace), that both walks end at such a pair    *)
(* from any start that FindInsertPosition gives them (DescendFinds,        *)
(* AscendFinds), and that linking and unlinking are an insertion into and  *)
(* a removal from the sequence (LinkedRepresents, UnlinkedRepresents).     *)
(*                                                                         *)
(* The walks and the chain are recursive functions: that they exist is     *)
(* shown with a rank that each link lowers, the distance to an end.        *)
(***************************************************************************)
EXTENDS SortedTroves, SumsProofs, SequenceTheorems

-----------------------------------------------------------------------------
(* Sequences.                                                              *)

\* What is in a sequence after an insertion.
LEMMA InsertAtElements ==
    ASSUME NEW s \in Seq(Ids), NEW e \in Ids, NEW i \in 1..(Len(s) + 1)
    PROVE  /\ Sequence!InsertAt(s, i, e) \in Seq(Ids)
           /\ Len(Sequence!InsertAt(s, i, e)) = Len(s) + 1
           /\ \A k \in 1..(Len(s) + 1) :
                Sequence!InsertAt(s, i, e)[k] = IF k < i THEN s[k] ELSE IF k = i THEN e ELSE s[k - 1]
<1>. DEFINE a == SubSeq(s, 1, i - 1)
            b == SubSeq(s, i, Len(s))
<1>1. /\ a \in Seq(Ids) /\ Len(a) = i - 1
      /\ \A k \in 1..(i - 1) : a[k] = s[k]
  OBVIOUS
<1>2. /\ b \in Seq(Ids) /\ Len(b) = Len(s) - (i - 1)
      /\ \A k \in 1..(Len(s) - (i - 1)) : b[k] = s[k + (i - 1)]
  OBVIOUS
<1>3. Sequence!InsertAt(s, i, e) = a \o <<e>> \o b
  BY DEF Sequence!InsertAt
<1>. HIDE DEF a, b
<1>4. /\ a \o <<e>> \in Seq(Ids) /\ Len(a \o <<e>>) = i
      /\ \A k \in 1..i : (a \o <<e>>)[k] = IF k < i THEN s[k] ELSE e
  BY <1>1
<1>. DEFINE c == a \o <<e>>
<1>. HIDE DEF c
<1>5. /\ c \in Seq(Ids) /\ Len(c) = i
      /\ \A k \in 1..i : c[k] = IF k < i THEN s[k] ELSE e
  BY <1>4 DEF c
<1>6. /\ c \o b \in Seq(Ids) /\ Len(c \o b) = Len(c) + Len(b)
      /\ \A k \in 1..(Len(c) + Len(b)) :
           (c \o b)[k] = IF k <= Len(c) THEN c[k] ELSE b[k - Len(c)]
  BY <1>2, <1>5, ConcatProperties
<1>7. Len(c) + Len(b) = Len(s) + 1
  BY <1>2, <1>5
<1>8. ASSUME NEW k \in 1..(Len(s) + 1)
      PROVE  (c \o b)[k] = IF k < i THEN s[k] ELSE IF k = i THEN e ELSE s[k - 1]
  <2>. k <= i \/ k > i
    OBVIOUS
  <2>1. CASE k <= i
    BY <1>5, <1>6, <1>7, <2>1
  <2>2. CASE k > i
    <3>1. (c \o b)[k] = b[k - i]
      BY <1>5, <1>6, <1>7, <2>2
    <3>2. k - i \in 1..(Len(s) - (i - 1)) /\ (k - i) + (i - 1) = k - 1
      BY <2>2
    <3>3. b[k - i] = s[k - 1]
      BY <1>2, <3>2
    <3>. QED  BY <2>2, <3>1, <3>3
  <2>. QED  BY <2>1, <2>2, Zenon
<1>. QED  BY <1>3, <1>6, <1>7, <1>8 DEF c

\* What is in it after a removal.
LEMMA RemoveAtElements ==
    ASSUME NEW s \in Seq(Ids), NEW i \in 1..Len(s)
    PROVE  /\ Sequence!RemoveAt(s, i) \in Seq(Ids)
           /\ Len(Sequence!RemoveAt(s, i)) = Len(s) - 1
           /\ \A k \in 1..(Len(s) - 1) : Sequence!RemoveAt(s, i)[k] = IF k < i THEN s[k] ELSE s[k + 1]
<1>. DEFINE a == SubSeq(s, 1, i - 1)
            b == SubSeq(s, i + 1, Len(s))
<1>1. /\ a \in Seq(Ids) /\ Len(a) = i - 1
      /\ \A k \in 1..(i - 1) : a[k] = s[k]
  OBVIOUS
<1>2. /\ b \in Seq(Ids) /\ Len(b) = Len(s) - i
      /\ \A k \in 1..(Len(s) - i) : b[k] = s[k + i]
  OBVIOUS
<1>3. Sequence!RemoveAt(s, i) = a \o b
  BY DEF Sequence!RemoveAt
<1>. HIDE DEF a, b
<1>4. /\ a \o b \in Seq(Ids) /\ Len(a \o b) = Len(a) + Len(b)
      /\ \A k \in 1..(Len(a) + Len(b)) :
           (a \o b)[k] = IF k <= Len(a) THEN a[k] ELSE b[k - Len(a)]
  BY <1>1, <1>2, ConcatProperties
<1>5. Len(a) + Len(b) = Len(s) - 1
  BY <1>1, <1>2
<1>6. ASSUME NEW k \in 1..(Len(s) - 1)
      PROVE  (a \o b)[k] = IF k < i THEN s[k] ELSE s[k + 1]
  <2>. k < i \/ k >= i
    OBVIOUS
  <2>1. CASE k < i
    BY <1>1, <1>4, <1>5, <2>1
  <2>2. CASE k >= i
    <3>1. (a \o b)[k] = b[k - (i - 1)]
      BY <1>1, <1>4, <1>5, <2>2
    <3>2. k - (i - 1) \in 1..(Len(s) - i) /\ (k - (i - 1)) + i = k + 1
      BY <2>2
    <3>3. b[k - (i - 1)] = s[k + 1]
      BY <1>2, <3>2
    <3>. QED  BY <2>2, <3>1, <3>3
  <2>. QED  BY <2>1, <2>2, Zenon
<1>. QED  BY <1>3, <1>4, <1>5, <1>6

-----------------------------------------------------------------------------
(* The invariant.                                                          *)

\* The i-th of a sequence, or Null beyond its ends.
At(s, i) == IF i \in 1 .. Len(s) THEN s[i] ELSE Null

\* The list l is the sequence s, each of its users once; and no other node is linked.
Represents(l, s) ==
    /\ s \in Seq(Ids)
    /\ \A i, j \in 1 .. Len(s) : s[i] = s[j] => i = j
    /\ l.head = At(s, 1) /\ l.tail = At(s, Len(s)) /\ l.size = Len(s)
    /\ DOMAIN l.nodes = Hints
    /\ \A i \in 1 .. Len(s) :
        l.nodes[s[i]] = [exists |-> TRUE, next |-> At(s, i + 1), prev |-> At(s, i - 1)]
    /\ \A id \in Hints : (\A i \in 1 .. Len(s) : s[i] # id) => l.nodes[id] = NoNode

\* The list is such a sequence, of the length allowed.
ListInv ==
    /\ nicr \in [Ids -> NICRs]
    /\ \E s \in Seq(Ids) : Represents(List, s) /\ Len(s) <= MaxSize

\* What At gives: a hint, Null exactly beyond the ends.
LEMMA AtType ==
    ASSUME NEW s \in Seq(Ids), NEW i \in Int
    PROVE  At(s, i) \in Hints /\ (At(s, i) = Null <=> i \notin 1 .. Len(s))
  BY ListAssumption, ElementOfSeq DEF At, Hints

\* What the sequence says of the list.
LEMMA ListOf ==
    ASSUME NEW l, NEW s, Represents(l, s)
    PROVE  /\ s \in Seq(Ids) /\ Len(s) \in Nat
           /\ \A i, j \in 1 .. Len(s) : s[i] = s[j] => i = j
           /\ l.head = At(s, 1) /\ l.tail = At(s, Len(s)) /\ l.size = Len(s)
  BY DEF Represents

\* What it says of a node in it, and of any other.
LEMMA NodeIn ==
    ASSUME NEW l, NEW s, Represents(l, s), NEW i \in 1 .. Len(s)
    PROVE  /\ l.nodes[s[i]].exists = TRUE
           /\ l.nodes[s[i]].next = At(s, i + 1) /\ l.nodes[s[i]].prev = At(s, i - 1)
<1>1. l.nodes[s[i]] = [exists |-> TRUE, next |-> At(s, i + 1), prev |-> At(s, i - 1)]
  BY DEF Represents
<1>. QED
  BY <1>1

\* A node outside the sequence is not linked.
LEMMA NodeOut ==
    ASSUME NEW l, NEW s, Represents(l, s), NEW id \in Hints, \A i \in 1 .. Len(s) : s[i] # id
    PROVE  l.nodes[id].exists = FALSE /\ l.nodes[id].next = Null /\ l.nodes[id].prev = Null
<1>1. l.nodes[id] = NoNode
  BY DEF Represents
<1>. QED
  BY <1>1 DEF NoNode

\* The links of a node are hints.
LEMMA LinksType ==
    ASSUME NEW l, NEW s, Represents(l, s), NEW id \in Hints
    PROVE  l.nodes[id].next \in Hints /\ l.nodes[id].prev \in Hints
<1>1. CASE \A i \in 1 .. Len(s) : s[i] # id
  <2>1. l.nodes[id].next = Null /\ l.nodes[id].prev = Null
    BY <1>1, NodeOut
  <2>. QED
    BY <2>1 DEF Hints
<1>2. ASSUME NEW i \in 1 .. Len(s), s[i] = id
      PROVE  l.nodes[id].next \in Hints /\ l.nodes[id].prev \in Hints
  <2>1. s \in Seq(Ids) /\ i + 1 \in Int /\ i - 1 \in Int
    BY ListOf
  <2>2. At(s, i + 1) \in Hints /\ At(s, i - 1) \in Hints
    BY <2>1, AtType
  <2>. QED
    BY <1>2, <2>2, NodeIn
<1>. QED
  BY <1>1, <1>2

-----------------------------------------------------------------------------
(* The sequence along the links.                                           *)

\* The last of n places from the k-th on.
Upto(s, k, n) == IF k + n - 1 <= Len(s) THEN k + n - 1 ELSE Len(s)

\* What Chain computes from a node: the next n of the sequence, or the node alone.
From(s, n, id) ==
    IF id = Null \/ n = 0 THEN <<>>
    ELSE IF \E i \in 1 .. Len(s) : s[i] = id
      THEN LET i == CHOOSE i \in 1 .. Len(s) : s[i] = id IN SubSeq(s, i, Upto(s, i, n))
    ELSE <<id>>

\* What it is from the k-th node on.
LEMMA FromAt ==
    ASSUME NEW s \in Seq(Ids), \A i, j \in 1 .. Len(s) : s[i] = s[j] => i = j,
           NEW n \in Nat, NEW k \in 1 .. Len(s) + 1
    PROVE  From(s, n, At(s, k)) = SubSeq(s, k, Upto(s, k, n))
<1>. DEFINE m == Upto(s, k, n)
<1>1. /\ Len(s) \in Nat /\ m \in Int /\ k \in Int
      /\ (n = 0 \/ k = Len(s) + 1) => m < k
  BY DEF Upto
<1>2. CASE n = 0 \/ k = Len(s) + 1
  <2>1. SubSeq(s, k, m) = <<>>
    <3>1. m < k
      BY <1>1, <1>2
    <3>. HIDE DEF m
    <3>. QED
      BY <1>1, <3>1, SubSeqEmpty
  <2>2. k = Len(s) + 1 => At(s, k) = Null
    BY DEF At
  <2>3. n = 0 \/ At(s, k) = Null
    BY <1>2, <2>2
  <2>. QED
    BY <2>1, <2>3 DEF From
<1>3. CASE n # 0 /\ k # Len(s) + 1
  <2>1. k \in 1 .. Len(s) /\ At(s, k) = s[k] /\ s[k] # Null
    BY <1>3, AtType DEF At
  <2>2. (CHOOSE i \in 1 .. Len(s) : s[i] = s[k]) = k
    BY <2>1
  <2>. QED
    BY <1>3, <2>1, <2>2 DEF From
<1>. QED
  BY <1>2, <1>3

\* It is what Chain is defined to be.
LEMMA FromStep ==
    ASSUME NEW l, NEW s, Represents(l, s), NEW n \in Nat, NEW id \in Hints
    PROVE  From(s, n, id) = IF id = Null \/ n = 0 THEN <<>>
                            ELSE <<id>> \o From(s, n - 1, l.nodes[id].next)
<1>1. /\ s \in Seq(Ids) /\ Len(s) \in Nat
      /\ \A i, j \in 1 .. Len(s) : s[i] = s[j] => i = j
  BY ListOf
<1>2. CASE id = Null \/ n = 0
  BY <1>2 DEF From
<1>3. ASSUME id # Null, n # 0, NEW k \in 1 .. Len(s), s[k] = id
      PROVE  From(s, n, id) = <<id>> \o From(s, n - 1, l.nodes[id].next)
  <2>1. /\ At(s, k) = id /\ l.nodes[id].next = At(s, k + 1)
        /\ k \in 1 .. Len(s) + 1 /\ k + 1 \in 1 .. Len(s) + 1 /\ n - 1 \in Nat
    <3>1. l.nodes[id].next = At(s, k + 1)
      BY <1>3, NodeIn
    <3>. QED
      BY <1>1, <1>3, <3>1 DEF At
  <2>2. From(s, n, id) = SubSeq(s, k, Upto(s, k, n))
    BY <1>1, <2>1, FromAt
  <2>3. From(s, n - 1, At(s, k + 1)) = SubSeq(s, k + 1, Upto(s, k + 1, n - 1))
    BY <1>1, <2>1, FromAt
  <2>4. Upto(s, k + 1, n - 1) = Upto(s, k, n) /\ Upto(s, k, n) \in k .. Len(s)
    <3>1. Len(s) \in Nat /\ k \in 1 .. Len(s) /\ n \in Nat \ {0}
      BY <1>1, <1>3
    <3>. QED
      BY <3>1 DEF Upto
  <2>5. SubSeq(s, k, Upto(s, k, n)) = <<s[k]>> \o SubSeq(s, k + 1, Upto(s, k, n))
    BY <1>1, <2>4, SubSeqRecursiveFirst
  <2>. QED
    BY <1>3, <2>1, <2>2, <2>3, <2>4, <2>5
<1>4. ASSUME id # Null, n # 0, \A i \in 1 .. Len(s) : s[i] # id
      PROVE  From(s, n, id) = <<id>> \o From(s, n - 1, l.nodes[id].next)
  <2>1. From(s, n, id) = <<id>> /\ From(s, n - 1, l.nodes[id].next) = <<>>
    BY <1>4, NodeOut DEF From
  <2>2. <<id>> \in Seq(Hints) /\ <<id>> \o <<>> = <<id>>
    BY ConcatEmptySeq
  <2>. QED
    BY <2>1, <2>2
<1>. QED
  BY <1>2, <1>3, <1>4

\* The nodes from the head on are the sequence.
LEMMA ChainIs ==
    ASSUME NEW l, NEW s, Represents(l, s)
    PROVE  Chain(l.nodes, l.head) = s
<1>. DEFINE step(g) == [n \in Nat |-> [id \in Hints |->
                           IF id = Null \/ n = 0 THEN <<>>
                           ELSE <<id>> \o g[n - 1][l.nodes[id].next]]]
            f == [n \in Nat |-> [id \in Hints |-> From(s, n, id)]]
            from == CHOOSE g : g = step(g)
            most == Cardinality(Ids) + 1
<1>1. /\ s \in Seq(Ids) /\ Len(s) \in Nat
      /\ \A i, j \in 1 .. Len(s) : s[i] = s[j] => i = j
      /\ l.head = At(s, 1)
  BY ListOf
<1>2. \A id \in Hints : l.nodes[id].next \in Hints
  BY LinksType
<1>3. f = step(f)
  <2>1. \A n \in Nat, id \in Hints : f[n][id] = From(s, n, id)
    OBVIOUS
  <2>2. f = [n \in Nat |-> [id \in Hints |-> f[n][id]]]
    OBVIOUS
  <2>. HIDE DEF f
  <2>3. ASSUME NEW n \in Nat, NEW id \in Hints
        PROVE  f[n][id] = IF id = Null \/ n = 0 THEN <<>>
                          ELSE <<id>> \o f[n - 1][l.nodes[id].next]
    <3>1. f[n][id] = IF id = Null \/ n = 0 THEN <<>>
                     ELSE <<id>> \o From(s, n - 1, l.nodes[id].next)
      BY <2>1, FromStep
    <3>2. n # 0 => f[n - 1][l.nodes[id].next] = From(s, n - 1, l.nodes[id].next)
      BY <1>2, <2>1
    <3>. QED
      BY <3>1, <3>2
  <2>. QED
    BY <2>2, <2>3, Zenon
<1>. HIDE DEF f, step
<1>4. from = step(from)
  BY <1>3
<1>. HIDE DEF from
<1>5. \A n \in Nat, id \in Hints :
        from[n][id] = IF id = Null \/ n = 0 THEN <<>>
                      ELSE <<id>> \o from[n - 1][l.nodes[id].next]
  <2>1. from = [n \in Nat |-> [id \in Hints |->
                  IF id = Null \/ n = 0 THEN <<>>
                  ELSE <<id>> \o from[n - 1][l.nodes[id].next]]]
    BY <1>4 DEF step
  <2>2. ASSUME NEW n \in Nat
        PROVE  from[n] = [id \in Hints |->
                  IF id = Null \/ n = 0 THEN <<>>
                  ELSE <<id>> \o from[n - 1][l.nodes[id].next]]
    BY <2>1, Zenon
  <2>. QED
    BY <2>2, Zenon
<1>6. \A n \in Nat : \A id \in Hints : from[n][id] = From(s, n, id)
  <2>. DEFINE Agree == {n \in Nat : \A id \in Hints : from[n][id] = From(s, n, id)}
  <2>1. 0 \in Agree
    BY <1>5 DEF From
  <2>2. ASSUME NEW n \in Nat, n \in Agree
        PROVE  n + 1 \in Agree
    <3>1. ASSUME NEW id \in Hints
          PROVE  from[n + 1][id] = From(s, n + 1, id)
      <4>1. n + 1 # 0 /\ n + 1 \in Nat /\ (n + 1) - 1 = n
        OBVIOUS
      <4>2. CASE id = Null
        BY <1>5, <4>1, <4>2 DEF From
      <4>3. CASE id # Null
        <5>1. from[n][l.nodes[id].next] = From(s, n, l.nodes[id].next)
          BY <1>2, <2>2
        <5>2. from[n + 1][id] = <<id>> \o from[n][l.nodes[id].next]
          BY <1>5, <4>1, <4>3
        <5>3. From(s, n + 1, id) = <<id>> \o From(s, n, l.nodes[id].next)
          BY <4>1, <4>3, FromStep
        <5>. QED
          BY <5>1, <5>2, <5>3
      <4>. QED
        BY <4>2, <4>3
    <3>. QED
      BY <3>1
  <2>3. Nat \subseteq Agree
    <3>. HIDE DEF Agree
    <3>. QED
      BY <2>1, <2>2, InductionOnNat
  <2>. QED
    BY <2>3
<1>7. Chain(l.nodes, l.head) = from[most][l.head]
  BY DEF Chain, from, step, Hints
<1>8. most \in Nat /\ Len(s) <= most
  <2>1. s \in Injection(1 .. Len(s), Ids)
    <3>1. s \in [1 .. Len(s) -> Ids]
      BY <1>1
    <3>. QED
      BY <1>1, <3>1 DEF Injection, IsInjective
  <2>2. Cardinality(1 .. Len(s)) <= Cardinality(Ids) /\ Cardinality(Ids) \in Nat
    BY <2>1, FS_Injection, FS_CardinalityType, ListAssumption
  <2>3. Cardinality(1 .. Len(s)) = Len(s) /\ Len(s) \in Nat
    <3>1. 1 \in Int /\ Len(s) \in Int
      BY <1>1
    <3>2. Cardinality(1 .. Len(s)) = IF 1 > Len(s) THEN 0 ELSE Len(s) - 1 + 1
      BY <3>1, FS_Interval
    <3>. QED
      BY <1>1, <3>2
  <2>. QED
    BY <2>2, <2>3
<1>. HIDE DEF most
<1>9. from[most][l.head] = From(s, most, At(s, 1))
  BY <1>1, <1>6, <1>8, AtType
<1>10. From(s, most, At(s, 1)) = SubSeq(s, 1, Upto(s, 1, most)) /\ Upto(s, 1, most) = Len(s)
  <2>1. Len(s) \in Nat /\ 1 \in 1 .. Len(s) + 1
    BY <1>1
  <2>2. From(s, most, At(s, 1)) = SubSeq(s, 1, Upto(s, 1, most))
    BY <1>1, <1>8, <2>1, FromAt
  <2>. QED
    BY <1>1, <1>8, <2>2 DEF Upto
<1>11. SubSeq(s, 1, Len(s)) = s
  BY <1>1, SubSeqFull
<1>. QED
  BY <1>7, <1>9, <1>10, <1>11

-----------------------------------------------------------------------------
(* The walks.                                                              *)

\* A walk over S, from x to nxt[x] until it stops, that goes down in rank.
Walk(S, R, stop, nxt, res, rank) ==
    /\ stop \in [S -> BOOLEAN] /\ nxt \in [S -> S] /\ res \in [S -> R] /\ rank \in [S -> Nat]
    /\ \A x \in S : ~stop[x] => rank[nxt[x]] < rank[x]

\* f is what it returns: what it finds where it stops.
Finds(S, stop, nxt, res, f) == f = [x \in S |-> IF stop[x] THEN res[x] ELSE f[nxt[x]]]

\* Such a function exists.
LEMMA WalkExists ==
    ASSUME NEW S, NEW R, NEW stop, NEW nxt, NEW res, NEW rank,
           Walk(S, R, stop, nxt, res, rank)
    PROVE  \E f : Finds(S, stop, nxt, res, f)
<1>. /\ stop \in [S -> BOOLEAN] /\ nxt \in [S -> S] /\ res \in [S -> R] /\ rank \in [S -> Nat]
     /\ \A x \in S : ~stop[x] => rank[nxt[x]] < rank[x]
  BY DEF Walk
<1>. DEFINE length == [x \in S |-> IF stop[x] THEN 0 ELSE rank[x] + 2]
<1>1. Shrinks(S, length, nxt)
  BY DEF Shrinks
<1>2. \A x \in S : (length[x] > 1) <=> ~stop[x]
  OBVIOUS
<1>. HIDE DEF length
<1>3. PICK f \in [S -> R] : Returns(S, length, nxt, res, f)
  BY <1>1, LoopFunction
<1>4. \A x \in S : f[x] = IF stop[x] THEN res[x] ELSE f[nxt[x]]
  BY <1>2, <1>3 DEF Returns
<1>. QED
  BY <1>4 DEF Finds

\* A walk that stays where it is good until it stops returns what is found at a good stop.
LEMMA WalkStops ==
    ASSUME NEW S, NEW R, NEW stop, NEW nxt, NEW res, NEW rank,
           Walk(S, R, stop, nxt, res, rank),
           NEW f, Finds(S, stop, nxt, res, f),
           NEW Good \in SUBSET S, \A x \in Good : stop[x] \/ nxt[x] \in Good,
           NEW start \in Good
    PROVE  \E y \in Good : stop[y] /\ f[start] = res[y]
<1>. /\ nxt \in [S -> S] /\ rank \in [S -> Nat]
     /\ \A x \in S : ~stop[x] => rank[nxt[x]] < rank[x]
     /\ f = [x \in S |-> IF stop[x] THEN res[x] ELSE f[nxt[x]]]
  BY DEF Walk, Finds
<1>. DEFINE Ends(x) == \E y \in Good : stop[y] /\ f[x] = res[y]
            Done == {n \in Nat : \A x \in Good : rank[x] < n => Ends(x)}
<1>1. 0 \in Done
  OBVIOUS
<1>2. ASSUME NEW n \in Nat, n \in Done
      PROVE  n + 1 \in Done
  <2>1. ASSUME NEW x \in Good, rank[x] < n + 1
        PROVE  Ends(x)
    <3>1. f[x] = IF stop[x] THEN res[x] ELSE f[nxt[x]]
      OBVIOUS
    <3>2. CASE stop[x]
      BY <3>1, <3>2
    <3>3. CASE ~stop[x]
      <4>1. nxt[x] \in Good /\ rank[nxt[x]] < n
        BY <2>1, <3>3
      <4>2. Ends(nxt[x])
        BY <1>2, <4>1
      <4>3. f[x] = f[nxt[x]]
        BY <3>1, <3>3
      <4>. QED
        BY <4>2, <4>3
    <3>. QED
      BY <3>2, <3>3
  <2>. QED
    BY <2>1
<1>3. Nat \subseteq Done
  <2>. HIDE DEF Done
  <2>. QED
    BY <1>1, <1>2, InductionOnNat
<1>4. rank[start] \in Nat /\ rank[start] + 1 \in Done
  BY <1>3
<1>. QED
  BY <1>4

-----------------------------------------------------------------------------
(* Valid places.                                                           *)

\* Ratios are numbers.
Typed(ratio) == ratio \in Nat /\ nicr \in [Ids -> Nat]

\* A pair that is valid is a place of the sequence.
LEMMA ValidIsPlace ==
    ASSUME NEW l, NEW s, Represents(l, s), NEW ratio, Typed(ratio),
           NEW prev \in Hints, NEW next \in Hints, ValidInsertPosition(l, ratio, prev, next)
    PROVE  \E i \in Sequence!Places(s, ratio) : prev = At(s, i - 1) /\ next = At(s, i)
<1>1. /\ s \in Seq(Ids) /\ Len(s) \in Nat
      /\ l.head = At(s, 1) /\ l.tail = At(s, Len(s)) /\ l.size = Len(s)
  BY ListOf
<1>2. /\ \A x \in Ids : getNominalICR(x) = nicr[x] /\ x # Null
      /\ \A i \in 1 .. Len(s) : s[i] \in Ids
  BY <1>1, ListAssumption, ElementOfSeq DEF getNominalICR
<1>3. CASE prev = Null /\ next = Null
  <2>1. l.size = 0
    BY <1>3 DEF ValidInsertPosition
  <2>2. Len(s) = 0
    BY <1>1, <2>1
  <2>3. 1 \in Sequence!Places(s, ratio) /\ At(s, 1 - 1) = Null /\ At(s, 1) = Null
    BY <1>1, <2>2 DEF Sequence!Places, At
  <2>. QED
    BY <1>3, <2>3
<1>4. CASE prev = Null /\ next # Null
  <2>1. l.head = next /\ ratio >= getNominalICR(next)
    BY <1>4 DEF ValidInsertPosition
  <2>2. Len(s) >= 1 /\ next = s[1] /\ At(s, 1) = next /\ At(s, 1 - 1) = Null
    BY <1>1, <1>4, <2>1 DEF At
  <2>3. ratio >= nicr[s[1]]
    BY <1>1, <1>2, <2>1, <2>2
  <2>4. 1 \in Sequence!Places(s, ratio)
    BY <1>1, <2>2, <2>3 DEF Sequence!Places
  <2>. QED
    BY <1>4, <2>2, <2>4
<1>5. CASE prev # Null /\ next = Null
  <2>1. l.tail = prev /\ ratio <= getNominalICR(prev)
    BY <1>5 DEF ValidInsertPosition
  <2>. DEFINE n == Len(s)
  <2>2. n >= 1 /\ prev = s[n] /\ At(s, (n + 1) - 1) = prev /\ At(s, n + 1) = Null
    BY <1>1, <1>5, <2>1 DEF At
  <2>3. nicr[s[n]] >= ratio
    <3>1. nicr[s[n]] \in Nat /\ ratio \in Nat
      BY <1>1, <1>2, <2>2 DEF Typed
    <3>. QED
      BY <1>1, <1>2, <2>1, <2>2, <3>1
  <2>4. n + 1 \in Sequence!Places(s, ratio)
    BY <1>1, <2>2, <2>3 DEF Sequence!Places
  <2>. QED
    BY <1>5, <2>2, <2>4
<1>6. CASE prev # Null /\ next # Null
  <2>1. /\ l.nodes[prev].next = next
        /\ getNominalICR(prev) >= ratio /\ ratio >= getNominalICR(next)
    BY <1>6 DEF ValidInsertPosition
  <2>2. PICK k \in 1 .. Len(s) : s[k] = prev
    BY <1>6, <2>1, NodeOut
  <2>3. next = At(s, k + 1)
    BY <2>1, <2>2, NodeIn
  <2>4. k + 1 \in 1 .. Len(s) /\ next = s[k + 1] /\ At(s, (k + 1) - 1) = prev
    BY <1>1, <1>6, <2>2, <2>3 DEF At
  <2>5. nicr[s[k]] >= ratio /\ ratio >= nicr[s[k + 1]]
    BY <1>2, <2>1, <2>2, <2>4
  <2>6. k + 1 \in Sequence!Places(s, ratio)
    BY <1>1, <2>4, <2>5 DEF Sequence!Places
  <2>. QED
    BY <2>3, <2>4, <2>6
<1>. QED
  BY <1>3, <1>4, <1>5, <1>6

\* And a place is valid.
LEMMA PlaceIsValid ==
    ASSUME NEW l, NEW s, Represents(l, s), NEW ratio, Typed(ratio),
           NEW i \in Sequence!Places(s, ratio)
    PROVE  /\ ValidInsertPosition(l, ratio, At(s, i - 1), At(s, i))
           /\ At(s, i - 1) \in Hints /\ At(s, i) \in Hints
<1>1. /\ s \in Seq(Ids) /\ Len(s) \in Nat
      /\ l.head = At(s, 1) /\ l.tail = At(s, Len(s)) /\ l.size = Len(s)
  BY ListOf
<1>2. /\ \A x \in Ids : getNominalICR(x) = nicr[x] /\ x # Null /\ nicr[x] \in Nat
      /\ \A k \in 1 .. Len(s) : s[k] \in Ids
      /\ ratio \in Nat
  BY <1>1, ListAssumption, ElementOfSeq DEF getNominalICR, Typed
<1>3. /\ i \in 1 .. Len(s) + 1
      /\ i = 1 \/ nicr[s[i - 1]] >= ratio
      /\ i = Len(s) + 1 \/ ratio >= nicr[s[i]]
  BY DEF Sequence!Places
<1>4. At(s, i - 1) \in Hints /\ At(s, i) \in Hints
  BY <1>1, <1>3, AtType
<1>5. CASE i = 1 /\ i = Len(s) + 1
  <2>1. At(s, i - 1) = Null /\ At(s, i) = Null /\ l.size = 0
    BY <1>1, <1>5 DEF At
  <2>. QED
    BY <1>4, <2>1 DEF ValidInsertPosition
<1>6. CASE i = 1 /\ i # Len(s) + 1
  <2>1. At(s, i - 1) = Null /\ At(s, i) = s[1] /\ s[1] \in Ids /\ l.head = s[1]
    BY <1>1, <1>2, <1>3, <1>6 DEF At
  <2>2. ratio >= getNominalICR(s[1]) /\ s[1] # Null
    BY <1>2, <1>3, <1>6, <2>1
  <2>. QED
    BY <1>4, <2>1, <2>2 DEF ValidInsertPosition
<1>7. CASE i # 1 /\ i = Len(s) + 1
  <2>1. At(s, i - 1) = s[i - 1] /\ At(s, i) = Null /\ s[i - 1] \in Ids /\ l.tail = s[i - 1]
    BY <1>1, <1>2, <1>3, <1>7 DEF At
  <2>2. ratio <= getNominalICR(s[i - 1]) /\ s[i - 1] # Null
    BY <1>2, <1>3, <1>7, <2>1
  <2>. QED
    BY <1>4, <2>1, <2>2 DEF ValidInsertPosition
<1>8. CASE i # 1 /\ i # Len(s) + 1
  <2>1. /\ i - 1 \in 1 .. Len(s) /\ i \in 1 .. Len(s) /\ (i - 1) + 1 = i
        /\ At(s, i - 1) = s[i - 1] /\ At(s, i) = s[i] /\ s[i - 1] \in Ids /\ s[i] \in Ids
    BY <1>1, <1>2, <1>3, <1>8 DEF At
  <2>2. l.nodes[s[i - 1]].next = s[i]
    <3>1. ASSUME NEW k \in 1 .. Len(s)
          PROVE  l.nodes[s[k]].next = At(s, k + 1)
      BY NodeIn
    <3>. QED
      BY <2>1, <3>1
  <2>3. /\ getNominalICR(s[i - 1]) >= ratio /\ ratio >= getNominalICR(s[i])
        /\ s[i - 1] # Null /\ s[i] # Null
    BY <1>2, <1>3, <1>8, <2>1
  <2>. QED
    BY <1>4, <2>1, <2>2, <2>3 DEF ValidInsertPosition
<1>. QED
  BY <1>5, <1>6, <1>7, <1>8

-----------------------------------------------------------------------------
(* The walks find a place.                                                 *)

\* How far a node is along the sequence: one outside is followed by none.
Rank(s, id) ==
    IF id = Null THEN 0
    ELSE IF \E i \in 1 .. Len(s) : s[i] = id THEN Len(s) + 1 - (CHOOSE i \in 1 .. Len(s) : s[i] = id)
    ELSE 1

\* The rank of the k-th node.
LEMMA RankIn ==
    ASSUME NEW s \in Seq(Ids), \A i, j \in 1 .. Len(s) : s[i] = s[j] => i = j,
           NEW k \in 1 .. Len(s)
    PROVE  Rank(s, s[k]) = Len(s) + 1 - k
<1>1. s[k] # Null
  BY ListAssumption, ElementOfSeq
<1>2. (CHOOSE i \in 1 .. Len(s) : s[i] = s[k]) = k
  OBVIOUS
<1>. QED
  BY <1>1, <1>2 DEF Rank

\* A rank is a natural number.
LEMMA RankType ==
    ASSUME NEW s \in Seq(Ids), NEW id
    PROVE  Rank(s, id) \in Nat
<1>. Len(s) \in Nat
  OBVIOUS
<1>1. CASE \E i \in 1 .. Len(s) : s[i] = id
  <2>. DEFINE k == CHOOSE i \in 1 .. Len(s) : s[i] = id
  <2>1. k \in 1 .. Len(s)
    BY <1>1
  <2>2. Rank(s, id) = IF id = Null THEN 0 ELSE Len(s) + 1 - k
    BY <1>1 DEF Rank
  <2>. HIDE DEF k
  <2>. QED
    BY <2>1, <2>2
<1>2. CASE ~ \E i \in 1 .. Len(s) : s[i] = id
  BY <1>2 DEF Rank
<1>. QED
  BY <1>1, <1>2

\* The next link goes down in rank.
LEMMA NextShrinks ==
    ASSUME NEW l, NEW s, Represents(l, s), NEW id \in Hints, id # Null
    PROVE  Rank(s, l.nodes[id].next) < Rank(s, id)
<1>1. /\ s \in Seq(Ids) /\ Len(s) \in Nat
      /\ \A i, j \in 1 .. Len(s) : s[i] = s[j] => i = j
  BY ListOf
<1>2. CASE \A i \in 1 .. Len(s) : s[i] # id
  <2>1. l.nodes[id].next = Null
    BY <1>2, NodeOut
  <2>2. Rank(s, id) = 1 /\ Rank(s, Null) = 0
    BY <1>2 DEF Rank
  <2>. QED
    BY <2>1, <2>2
<1>3. ASSUME NEW k \in 1 .. Len(s), s[k] = id
      PROVE  Rank(s, l.nodes[id].next) < Rank(s, id)
  <2>1. Rank(s, id) = Len(s) + 1 - k
    BY <1>1, <1>3, RankIn
  <2>2. l.nodes[id].next = At(s, k + 1)
    BY <1>3, NodeIn
  <2>3. CASE k = Len(s)
    <3>1. At(s, k + 1) = Null /\ Rank(s, Null) = 0
      BY <1>1, <2>3 DEF At, Rank
    <3>. QED
      BY <1>1, <2>1, <2>2, <2>3, <3>1
  <2>4. CASE k < Len(s)
    <3>1. k + 1 \in 1 .. Len(s) /\ At(s, k + 1) = s[k + 1]
      BY <1>1, <2>4 DEF At
    <3>2. Rank(s, s[k + 1]) = Len(s) + 1 - (k + 1)
      BY <1>1, <3>1, RankIn
    <3>. QED
      BY <1>1, <2>1, <2>2, <3>1, <3>2
  <2>. QED
    BY <1>1, <2>3, <2>4
<1>. QED
  BY <1>2, <1>3

\* Where the walk of DescendList ends.
LEMMA DescendFinds ==
    ASSUME NEW l, NEW s, Represents(l, s), NEW ratio, Typed(ratio),
           NEW k \in 1 .. Len(s), k = 1 \/ nicr[s[k]] >= ratio
    PROVE  \E i \in Sequence!Places(s, ratio) :
             DescendList(l, ratio, s[k]) = <<At(s, i - 1), At(s, i)>>
<1>1. /\ s \in Seq(Ids) /\ Len(s) \in Nat
      /\ \A i, j \in 1 .. Len(s) : s[i] = s[j] => i = j
      /\ l.head = At(s, 1) /\ l.tail = At(s, Len(s))
  BY ListOf
<1>2. /\ \A x \in Ids : getNominalICR(x) = nicr[x] /\ x # Null /\ nicr[x] \in Nat
      /\ \A i \in 1 .. Len(s) : s[i] \in Ids /\ s[i] \in Hints
      /\ ratio \in Nat
  BY <1>1, ListAssumption, ElementOfSeq DEF getNominalICR, Typed, Hints
<1>3. CASE l.head = s[k] /\ ratio >= getNominalICR(s[k])
  <2>1. k = 1 /\ At(s, 1) = s[1] /\ At(s, 1 - 1) = Null
    BY <1>1, <1>3 DEF At
  <2>2. 1 \in Sequence!Places(s, ratio)
    BY <1>1, <1>2, <1>3, <2>1 DEF Sequence!Places
  <2>3. DescendList(l, ratio, s[k]) = <<Null, s[k]>>
    BY <1>3 DEF DescendList
  <2>. QED
    BY <2>1, <2>2, <2>3
<1>4. CASE ~ (l.head = s[k] /\ ratio >= getNominalICR(s[k]))
  <2>. DEFINE next(x) == l.nodes[x].next
              ends(x) == x = Null \/ ValidInsertPosition(l, ratio, x, next(x))
              stop == [x \in Hints |-> ends(x)]
              nxt == [x \in Hints |-> next(x)]
              res == [x \in Hints |-> <<x, next(x)>>]
              rank == [x \in Hints |-> Rank(s, x)]
              walk == CHOOSE g : g = [x \in Hints |-> IF ends(x) THEN <<x, next(x)>> ELSE g[next(x)]]
              Good == {x \in Hints : \E i \in 1 .. Len(s) : s[i] = x /\ nicr[x] >= ratio}
  <2>1. Walk(Hints, Hints \X Hints, stop, nxt, res, rank)
    <3>1. \A x \in Hints : next(x) \in Hints /\ ends(x) \in BOOLEAN /\ Rank(s, x) \in Nat
      BY <1>1, LinksType, RankType
    <3>2. \A x \in Hints : x # Null => Rank(s, next(x)) < Rank(s, x)
      BY NextShrinks
    <3>3. \A x \in Hints : x = Null => ends(x)
      OBVIOUS
    <3>. HIDE DEF next, ends
    <3>. QED
      BY <3>1, <3>2, <3>3 DEF Walk
  <2>2. \A g : Finds(Hints, stop, nxt, res, g) <=>
                 g = [x \in Hints |-> IF ends(x) THEN <<x, next(x)>> ELSE g[next(x)]]
    <3>. HIDE DEF next, ends
    <3>. QED
      BY DEF Finds
  <2>3. Finds(Hints, stop, nxt, res, walk)
    <3>. HIDE DEF next, ends, stop, nxt, res, rank
    <3>1. \E g : Finds(Hints, stop, nxt, res, g)
      BY <2>1, WalkExists
    <3>2. \E g : g = [x \in Hints |-> IF ends(x) THEN <<x, next(x)>> ELSE g[next(x)]]
      BY <2>2, <3>1
    <3>3. walk = [x \in Hints |-> IF ends(x) THEN <<x, next(x)>> ELSE walk[next(x)]]
      BY <3>2
    <3>. QED
      BY <2>2, <3>3
  <2>5. \A x \in Good : stop[x] \/ nxt[x] \in Good
    <3>1. ASSUME NEW j \in 1 .. Len(s), nicr[s[j]] >= ratio
          PROVE  ends(s[j]) \/ next(s[j]) \in Good
      <4>1. next(s[j]) = At(s, j + 1)
        BY NodeIn
      <4>2. CASE j = Len(s)
        <5>1. next(s[j]) = Null /\ l.tail = s[j] /\ s[j] # Null
          BY <1>1, <1>2, <4>1, <4>2 DEF At
        <5>2. ratio <= getNominalICR(s[j])
          BY <1>2, <3>1
        <5>. QED
          BY <5>1, <5>2 DEF ValidInsertPosition
      <4>3. CASE j < Len(s)
        <5>1. j + 1 \in 1 .. Len(s) /\ next(s[j]) = s[j + 1]
          BY <1>1, <4>1, <4>3 DEF At
        <5>2. CASE nicr[s[j + 1]] >= ratio
          BY <1>2, <5>1, <5>2
        <5>3. CASE ~ (nicr[s[j + 1]] >= ratio)
          <6>1. /\ s[j] # Null /\ s[j + 1] # Null
                /\ getNominalICR(s[j]) >= ratio /\ ratio >= getNominalICR(s[j + 1])
            BY <1>2, <3>1, <5>1, <5>3
          <6>. QED
            BY <5>1, <6>1 DEF ValidInsertPosition
        <5>. QED
          BY <5>2, <5>3
      <4>. QED
        BY <1>1, <4>2, <4>3
    <3>. HIDE DEF next, ends
    <3>2. ASSUME NEW x \in Good
          PROVE  stop[x] \/ nxt[x] \in Good
      <4>1. PICK j \in 1 .. Len(s) : s[j] = x /\ nicr[s[j]] >= ratio
        OBVIOUS
      <4>2. ends(x) \/ next(x) \in Good
        BY <3>1, <4>1
      <4>3. x \in Hints
        OBVIOUS
      <4>. HIDE DEF Good
      <4>. QED
        BY <4>2, <4>3
    <3>. QED
      BY <3>2
  <2>6. s[k] \in Good
    <3>1. nicr[s[k]] >= ratio
      <4>1. CASE k = 1
        <5>1. l.head = s[k]
          BY <1>1, <4>1 DEF At
        <5>. QED
          BY <1>2, <1>4, <5>1
      <4>. QED
        BY <4>1
    <3>. QED
      BY <1>2, <3>1
  <2>7. PICK y \in Good : stop[y] /\ walk[s[k]] = res[y]
    <3>1. Good \in SUBSET Hints
      OBVIOUS
    <3>. HIDE DEF Good, stop, nxt, res, rank, walk
    <3>. QED
      BY <2>1, <2>3, <2>5, <2>6, <3>1, WalkStops
  <2>8. y \in Hints /\ next(y) \in Hints /\ ValidInsertPosition(l, ratio, y, next(y))
    <3>1. PICK j \in 1 .. Len(s) : s[j] = y
      OBVIOUS
    <3>2. y \in Hints /\ y # Null
      BY <1>2, <3>1
    <3>. QED
      BY <2>7, <3>2, LinksType
  <2>9. DescendList(l, ratio, s[k]) = walk[s[k]]
    BY <1>4 DEF DescendList, Hints
  <2>10. walk[s[k]] = <<y, next(y)>>
    BY <2>7, <2>8
  <2>11. PICK i \in Sequence!Places(s, ratio) : y = At(s, i - 1) /\ next(y) = At(s, i)
    BY <2>8, ValidIsPlace
  <2>. QED
    BY <2>9, <2>10, <2>11
<1>. QED
  BY <1>3, <1>4

\* How far a node is from the head.
RankUp(s, id) ==
    IF id = Null THEN 0
    ELSE IF \E i \in 1 .. Len(s) : s[i] = id THEN CHOOSE i \in 1 .. Len(s) : s[i] = id
    ELSE 1

\* The rank from the head of the k-th node.
LEMMA RankUpIn ==
    ASSUME NEW s \in Seq(Ids), \A i, j \in 1 .. Len(s) : s[i] = s[j] => i = j,
           NEW k \in 1 .. Len(s)
    PROVE  RankUp(s, s[k]) = k
<1>1. s[k] # Null
  BY ListAssumption, ElementOfSeq
<1>2. (CHOOSE i \in 1 .. Len(s) : s[i] = s[k]) = k
  OBVIOUS
<1>. QED
  BY <1>1, <1>2 DEF RankUp

\* It is a natural number.
LEMMA RankUpType ==
    ASSUME NEW s \in Seq(Ids), NEW id
    PROVE  RankUp(s, id) \in Nat
<1>1. CASE \E i \in 1 .. Len(s) : s[i] = id
  <2>. DEFINE k == CHOOSE i \in 1 .. Len(s) : s[i] = id
  <2>1. k \in 1 .. Len(s)
    BY <1>1
  <2>2. RankUp(s, id) = IF id = Null THEN 0 ELSE k
    BY <1>1 DEF RankUp
  <2>. HIDE DEF k
  <2>. QED
    BY <2>1, <2>2
<1>2. CASE ~ \E i \in 1 .. Len(s) : s[i] = id
  BY <1>2 DEF RankUp
<1>. QED
  BY <1>1, <1>2

\* The link back goes down in it.
LEMMA PrevShrinks ==
    ASSUME NEW l, NEW s, Represents(l, s), NEW id \in Hints, id # Null
    PROVE  RankUp(s, l.nodes[id].prev) < RankUp(s, id)
<1>1. /\ s \in Seq(Ids) /\ Len(s) \in Nat
      /\ \A i, j \in 1 .. Len(s) : s[i] = s[j] => i = j
  BY ListOf
<1>2. CASE \A i \in 1 .. Len(s) : s[i] # id
  <2>1. l.nodes[id].prev = Null
    BY <1>2, NodeOut
  <2>2. RankUp(s, id) = 1 /\ RankUp(s, Null) = 0
    BY <1>2 DEF RankUp
  <2>. QED
    BY <2>1, <2>2
<1>3. ASSUME NEW k \in 1 .. Len(s), s[k] = id
      PROVE  RankUp(s, l.nodes[id].prev) < RankUp(s, id)
  <2>1. RankUp(s, id) = k
    BY <1>1, <1>3, RankUpIn
  <2>2. l.nodes[id].prev = At(s, k - 1)
    BY <1>3, NodeIn
  <2>3. CASE k = 1
    <3>1. At(s, k - 1) = Null /\ RankUp(s, Null) = 0
      BY <1>1, <2>3 DEF At, RankUp
    <3>. QED
      BY <1>1, <2>1, <2>2, <2>3, <3>1
  <2>4. CASE k > 1
    <3>1. k - 1 \in 1 .. Len(s) /\ At(s, k - 1) = s[k - 1]
      BY <1>1, <2>4 DEF At
    <3>2. RankUp(s, s[k - 1]) = k - 1
      BY <1>1, <3>1, RankUpIn
    <3>. QED
      BY <1>1, <2>1, <2>2, <3>1, <3>2
  <2>. QED
    BY <1>1, <2>3, <2>4
<1>. QED
  BY <1>2, <1>3

\* Where the walk of AscendList ends.
LEMMA AscendFinds ==
    ASSUME NEW l, NEW s, Represents(l, s), NEW ratio, Typed(ratio),
           NEW k \in 1 .. Len(s), ratio >= nicr[s[k]]
    PROVE  \E i \in Sequence!Places(s, ratio) :
             AscendList(l, ratio, s[k]) = <<At(s, i - 1), At(s, i)>>
<1>1. /\ s \in Seq(Ids) /\ Len(s) \in Nat
      /\ \A i, j \in 1 .. Len(s) : s[i] = s[j] => i = j
      /\ l.head = At(s, 1) /\ l.tail = At(s, Len(s))
  BY ListOf
<1>2. /\ \A x \in Ids : getNominalICR(x) = nicr[x] /\ x # Null /\ nicr[x] \in Nat
      /\ \A i \in 1 .. Len(s) : s[i] \in Ids /\ s[i] \in Hints
      /\ ratio \in Nat
  BY <1>1, ListAssumption, ElementOfSeq DEF getNominalICR, Typed, Hints
<1>3. CASE l.tail = s[k] /\ ratio <= getNominalICR(s[k])
  <2>1. k = Len(s)
    BY <1>1, <1>3 DEF At
  <2>2. At(s, (k + 1) - 1) = s[k] /\ At(s, k + 1) = Null
    BY <1>1, <2>1 DEF At
  <2>3. k + 1 \in Sequence!Places(s, ratio)
    <3>1. nicr[s[k]] >= ratio /\ (k + 1) - 1 = k
      BY <1>2, <1>3
    <3>. QED
      BY <1>1, <2>1, <3>1 DEF Sequence!Places
  <2>4. AscendList(l, ratio, s[k]) = <<s[k], Null>>
    BY <1>3 DEF AscendList
  <2>. QED
    BY <2>2, <2>3, <2>4
<1>4. CASE ~ (l.tail = s[k] /\ ratio <= getNominalICR(s[k]))
  <2>. DEFINE prev(x) == l.nodes[x].prev
              ends(x) == x = Null \/ ValidInsertPosition(l, ratio, prev(x), x)
              stop == [x \in Hints |-> ends(x)]
              nxt == [x \in Hints |-> prev(x)]
              res == [x \in Hints |-> <<prev(x), x>>]
              rank == [x \in Hints |-> RankUp(s, x)]
              walk == CHOOSE g : g = [x \in Hints |-> IF ends(x) THEN <<prev(x), x>> ELSE g[prev(x)]]
              Good == {x \in Hints : \E i \in 1 .. Len(s) : s[i] = x /\ ratio >= nicr[x]}
  <2>1. Walk(Hints, Hints \X Hints, stop, nxt, res, rank)
    <3>1. \A x \in Hints : prev(x) \in Hints /\ ends(x) \in BOOLEAN /\ RankUp(s, x) \in Nat
      BY <1>1, LinksType, RankUpType
    <3>2. \A x \in Hints : x # Null => RankUp(s, prev(x)) < RankUp(s, x)
      BY PrevShrinks
    <3>3. \A x \in Hints : x = Null => ends(x)
      OBVIOUS
    <3>. HIDE DEF prev, ends
    <3>. QED
      BY <3>1, <3>2, <3>3 DEF Walk
  <2>2. \A g : Finds(Hints, stop, nxt, res, g) <=>
                 g = [x \in Hints |-> IF ends(x) THEN <<prev(x), x>> ELSE g[prev(x)]]
    <3>. HIDE DEF prev, ends
    <3>. QED
      BY DEF Finds
  <2>3. Finds(Hints, stop, nxt, res, walk)
    <3>. HIDE DEF prev, ends, stop, nxt, res, rank
    <3>1. \E g : Finds(Hints, stop, nxt, res, g)
      BY <2>1, WalkExists
    <3>2. \E g : g = [x \in Hints |-> IF ends(x) THEN <<prev(x), x>> ELSE g[prev(x)]]
      BY <2>2, <3>1
    <3>3. walk = [x \in Hints |-> IF ends(x) THEN <<prev(x), x>> ELSE walk[prev(x)]]
      BY <3>2
    <3>. QED
      BY <2>2, <3>3
  <2>4. ASSUME NEW j \in 1 .. Len(s), ratio >= nicr[s[j]]
        PROVE  ends(s[j]) \/ prev(s[j]) \in Good
    <3>1. prev(s[j]) = At(s, j - 1) /\ s[j] # Null
      <4>1. l.nodes[s[j]].prev = At(s, j - 1)
        BY NodeIn
      <4>. QED
        BY <1>2, <4>1
    <3>2. CASE j = 1
      <4>1. prev(s[j]) = Null /\ l.head = s[j]
        BY <1>1, <2>4, <3>1, <3>2 DEF At
      <4>2. ratio >= getNominalICR(s[j])
        BY <1>2, <2>4
      <4>. QED
        BY <3>1, <4>1, <4>2 DEF ValidInsertPosition
    <3>3. CASE j > 1
      <4>1. j - 1 \in 1 .. Len(s) /\ (j - 1) + 1 = j /\ prev(s[j]) = s[j - 1]
        BY <1>1, <3>1, <3>3 DEF At
      <4>2. l.nodes[s[j - 1]].next = s[j]
        <5>1. ASSUME NEW i \in 1 .. Len(s)
              PROVE  l.nodes[s[i]].next = At(s, i + 1)
          BY NodeIn
        <5>. QED
          BY <4>1, <5>1 DEF At
      <4>3. CASE ratio >= nicr[s[j - 1]]
        BY <1>2, <4>1, <4>3
      <4>4. CASE ~ (ratio >= nicr[s[j - 1]])
        <5>1. /\ s[j - 1] # Null
              /\ getNominalICR(s[j - 1]) >= ratio /\ ratio >= getNominalICR(s[j])
          BY <1>2, <2>4, <4>1, <4>4
        <5>. QED
          BY <3>1, <4>1, <4>2, <5>1 DEF ValidInsertPosition
      <4>. QED
        BY <4>3, <4>4
    <3>. QED
      BY <1>1, <3>2, <3>3
  <2>5. ASSUME NEW x \in Good
        PROVE  stop[x] \/ nxt[x] \in Good
    <3>. HIDE DEF prev, ends
    <3>1. PICK j \in 1 .. Len(s) : s[j] = x /\ ratio >= nicr[s[j]]
      OBVIOUS
    <3>2. ends(x) \/ prev(x) \in Good
      BY <2>4, <3>1
    <3>3. x \in Hints
      OBVIOUS
    <3>. HIDE DEF Good
    <3>. QED
      BY <3>2, <3>3
  <2>6. s[k] \in Good
    BY <1>2
  <2>7. PICK y \in Good : stop[y] /\ walk[s[k]] = res[y]
    <3>1. Good \in SUBSET Hints /\ \A x \in Good : stop[x] \/ nxt[x] \in Good
      BY <2>5
    <3>. HIDE DEF Good, stop, nxt, res, rank, walk
    <3>. QED
      BY <2>1, <2>3, <2>6, <3>1, WalkStops
  <2>8. y \in Hints /\ prev(y) \in Hints /\ ValidInsertPosition(l, ratio, prev(y), y)
    <3>1. PICK j \in 1 .. Len(s) : s[j] = y
      OBVIOUS
    <3>2. y \in Hints /\ y # Null
      BY <1>2, <3>1
    <3>. QED
      BY <2>7, <3>2, LinksType
  <2>9. AscendList(l, ratio, s[k]) = walk[s[k]]
    BY <1>4 DEF AscendList, Hints
  <2>10. walk[s[k]] = <<prev(y), y>>
    BY <2>7, <2>8
  <2>11. PICK i \in Sequence!Places(s, ratio) : prev(y) = At(s, i - 1) /\ y = At(s, i)
    BY <2>8, ValidIsPlace
  <2>. QED
    BY <2>9, <2>10, <2>11
<1>. QED
  BY <1>3, <1>4

\* Whatever the hints, the place they lead to is one of the sequence's.
LEMMA FindsPlace ==
    ASSUME NEW l, NEW s, Represents(l, s), NEW ratio, Typed(ratio),
           NEW prevHint \in Hints, NEW nextHint \in Hints
    PROVE  \E i \in Sequence!Places(s, ratio) :
             FindInsertPosition(l, ratio, prevHint, nextHint) = <<At(s, i - 1), At(s, i)>>
<1>. DEFINE prev == IF /\ prevHint # Null /\ contains(l.nodes, prevHint)
                       /\ ratio <= getNominalICR(prevHint)
                      THEN prevHint ELSE Null
            next == IF /\ nextHint # Null /\ contains(l.nodes, nextHint)
                       /\ ratio >= getNominalICR(nextHint)
                      THEN nextHint ELSE Null
<1>1. /\ s \in Seq(Ids) /\ Len(s) \in Nat /\ l.head = At(s, 1)
      /\ \A x \in Ids : getNominalICR(x) = nicr[x] /\ nicr[x] \in Nat
      /\ \A i \in 1 .. Len(s) : s[i] \in Ids
      /\ ratio \in Nat
  <2>1. s \in Seq(Ids) /\ Len(s) \in Nat /\ l.head = At(s, 1)
    BY ListOf
  <2>. QED
    BY <2>1, ListAssumption, ElementOfSeq DEF getNominalICR, Typed
<1>2. FindInsertPosition(l, ratio, prevHint, nextHint) =
        IF prev = Null /\ next = Null THEN DescendList(l, ratio, l.head)
        ELSE IF prev = Null THEN AscendList(l, ratio, next)
        ELSE DescendList(l, ratio, prev)
  <2>1. FindInsertPosition(l, ratio, prevHint, nextHint) =
          CASE prev = Null /\ next = Null -> DescendList(l, ratio, l.head)
            [] prev = Null /\ next # Null -> AscendList(l, ratio, next)
            [] OTHER -> DescendList(l, ratio, prev)
    BY DEF FindInsertPosition
  <2>. HIDE DEF prev, next
  <2>. QED
    BY <2>1
<1>3. CASE prev = Null /\ next = Null
  <2>1. FindInsertPosition(l, ratio, prevHint, nextHint) = DescendList(l, ratio, l.head)
    BY <1>2, <1>3
  <2>2. CASE Len(s) = 0
    <3>1. l.head = Null /\ At(s, 1 - 1) = Null /\ At(s, 1) = Null
      BY <1>1, <2>2 DEF At
    <3>2. 1 \in Sequence!Places(s, ratio)
      BY <1>1, <2>2 DEF Sequence!Places
    <3>3. DescendList(l, ratio, Null) = <<Null, Null>>
      <4>1. CASE ratio >= getNominalICR(Null)
        BY <3>1, <4>1 DEF DescendList
      <4>2. CASE ~ (ratio >= getNominalICR(Null))
        <5>. DEFINE step(g) == [x \in Hints |->
                        IF x = Null \/ ValidInsertPosition(l, ratio, x, l.nodes[x].next)
                          THEN <<x, l.nodes[x].next>> ELSE g[l.nodes[x].next]]
                    walk == CHOOSE g : g = step(g)
        <5>1. ASSUME NEW x \in Hints
              PROVE  l.nodes[x].next = Null
          <6>1. \A i \in 1 .. Len(s) : s[i] # x
            BY <2>2
          <6>. QED
            BY <6>1, NodeOut
        <5>2. \E g : g = step(g)
          <6>. DEFINE some == [x \in Hints |->
                         IF x = Null \/ ValidInsertPosition(l, ratio, x, l.nodes[x].next)
                           THEN <<x, l.nodes[x].next>> ELSE <<Null, Null>>]
          <6>1. some[Null] = <<Null, Null>>
            BY <5>1 DEF Hints
          <6>2. \A x \in Hints : some[l.nodes[x].next] = <<Null, Null>>
            <7>. HIDE DEF some
            <7>. QED
              BY <5>1, <6>1
          <6>3. some = step(some)
            BY <6>2
          <6>. QED
            BY <6>3
        <5>3. walk = step(walk)
          <6>. HIDE DEF step
          <6>. QED
            BY <5>2
        <5>4. walk[Null] = <<Null, Null>>
          BY <5>1, <5>3 DEF Hints
        <5>. QED
          BY <3>1, <4>2, <5>4 DEF DescendList, Hints
      <4>. QED
        BY <4>1, <4>2
    <3>. QED
      BY <2>1, <3>1, <3>2, <3>3
  <2>3. CASE Len(s) # 0
    <3>1. 1 \in 1 .. Len(s) /\ l.head = s[1]
      BY <1>1, <2>3 DEF At
    <3>. QED
      BY <2>1, <3>1, DescendFinds
  <2>. QED
    BY <2>2, <2>3
<1>4. CASE prev = Null /\ next # Null
  <2>1. /\ FindInsertPosition(l, ratio, prevHint, nextHint) = AscendList(l, ratio, nextHint)
        /\ contains(l.nodes, nextHint) /\ ratio >= getNominalICR(nextHint)
    BY <1>2, <1>4
  <2>2. PICK k \in 1 .. Len(s) : s[k] = nextHint
    BY <2>1, NodeOut DEF contains
  <2>3. ratio >= nicr[s[k]]
    BY <1>1, <2>1, <2>2
  <2>. QED
    BY <2>1, <2>2, <2>3, AscendFinds
<1>5. CASE prev # Null
  <2>1. /\ FindInsertPosition(l, ratio, prevHint, nextHint) = DescendList(l, ratio, prevHint)
        /\ contains(l.nodes, prevHint) /\ ratio <= getNominalICR(prevHint)
    BY <1>2, <1>5
  <2>2. PICK k \in 1 .. Len(s) : s[k] = prevHint
    BY <2>1, NodeOut DEF contains
  <2>3. nicr[s[k]] >= ratio
    BY <1>1, <2>1, <2>2
  <2>. QED
    BY <2>1, <2>2, <2>3, DescendFinds
<1>. QED
  BY <1>3, <1>4, <1>5

-----------------------------------------------------------------------------
(* Linking and unlinking.                                                  *)

\* A node in the list.
Node(next, prev) == [exists |-> TRUE, next |-> next, prev |-> prev]

\* The links of a list with id linked in at the i-th place.
LinkedAt(m, l, s, i, id) ==
    /\ m.size = Len(s) + 1
    /\ m.head = IF i = 1 THEN id ELSE At(s, 1)
    /\ m.tail = IF i = Len(s) + 1 THEN id ELSE At(s, Len(s))
    /\ DOMAIN m.nodes = Hints
    /\ m.nodes[id] = Node(At(s, i), At(s, i - 1))
    /\ i > 1 => m.nodes[s[i - 1]] = Node(id, At(s, i - 2))
    /\ i <= Len(s) => m.nodes[s[i]] = Node(At(s, i + 1), id)
    /\ \A x \in Hints : x # id /\ (i > 1 => x # s[i - 1]) /\ (i <= Len(s) => x # s[i])
                          => m.nodes[x] = l.nodes[x]

\* The node at a place of the sequence.
LEMMA NodeAt ==
    ASSUME NEW l, NEW s, Represents(l, s), NEW i \in 1 .. Len(s)
    PROVE  l.nodes[s[i]] = Node(At(s, i + 1), At(s, i - 1))
  BY DEF Represents, Node

\* Writing one link of a node.
LEMMA Relinked ==
    ASSUME NEW a \in Hints, NEW b \in Hints, NEW c \in Hints
    PROVE  /\ [Node(a, b) EXCEPT !.next = c] = Node(c, b)
           /\ [Node(a, b) EXCEPT !.prev = c] = Node(a, c)
           /\ [NoNode EXCEPT !.exists = TRUE] = Node(Null, Null)
<1>. DEFINE Nodes == [exists : BOOLEAN, next : Hints, prev : Hints]
<1>1. ASSUME NEW r \in Nodes
      PROVE  /\ [r EXCEPT !.next = c] = [exists |-> r.exists, next |-> c, prev |-> r.prev]
             /\ [r EXCEPT !.prev = c] = [exists |-> r.exists, next |-> r.next, prev |-> c]
             /\ [r EXCEPT !.exists = TRUE] = [exists |-> TRUE, next |-> r.next, prev |-> r.prev]
  <2>1. [r EXCEPT !.next = c] = [exists |-> r.exists, next |-> c, prev |-> r.prev]
    OBVIOUS
  <2>2. [r EXCEPT !.prev = c] = [exists |-> r.exists, next |-> r.next, prev |-> c]
    OBVIOUS
  <2>3. [r EXCEPT !.exists = TRUE] = [exists |-> TRUE, next |-> r.next, prev |-> r.prev]
    <3>1. ASSUME NEW B, NEW b0 \in B
          PROVE  [r EXCEPT !.exists = b0] = [exists |-> b0, next |-> r.next, prev |-> r.prev]
      OBVIOUS
    <3>. QED
      BY <3>1, Zenon
  <2>. QED
    BY <2>1, <2>2, <2>3
<1>2. /\ Node(a, b) \in Nodes
      /\ Node(a, b).exists = TRUE /\ Node(a, b).next = a /\ Node(a, b).prev = b
  BY DEF Node
<1>3. /\ NoNode \in Nodes
      /\ NoNode.next = Null /\ NoNode.prev = Null
  BY DEF NoNode, Hints
<1>. HIDE DEF Nodes
<1>. QED
  BY <1>1, <1>2, <1>3 DEF Node

\* Writing one of a node of the list.
LEMMA RelinkedIn ==
    ASSUME NEW f, DOMAIN f = Hints, NEW x \in Hints, NEW c \in Hints,
           NEW a \in Hints, NEW b \in Hints, f[x] = Node(a, b)
    PROVE  /\ DOMAIN [f EXCEPT ![x].next = c] = Hints /\ DOMAIN [f EXCEPT ![x].prev = c] = Hints
           /\ [f EXCEPT ![x].next = c][x] = Node(c, b)
           /\ [f EXCEPT ![x].prev = c][x] = Node(a, c)
           /\ \A y \in Hints : y # x => /\ [f EXCEPT ![x].next = c][y] = f[y]
                                        /\ [f EXCEPT ![x].prev = c][y] = f[y]
<1>1. /\ [f EXCEPT ![x].next = c][x] = [f[x] EXCEPT !.next = c]
      /\ [f EXCEPT ![x].prev = c][x] = [f[x] EXCEPT !.prev = c]
  OBVIOUS
<1>2. [f[x] EXCEPT !.next = c] = Node(c, b) /\ [f[x] EXCEPT !.prev = c] = Node(a, c)
  BY Relinked
<1>. QED
  BY <1>1, <1>2

\* Marking one of them as existing.
LEMMA ExistsIn ==
    ASSUME NEW f, NEW x \in DOMAIN f
    PROVE  [f EXCEPT ![x].exists = TRUE][x] = [f[x] EXCEPT !.exists = TRUE]
<1>1. [f EXCEPT ![x].exists = TRUE] = [f EXCEPT ![x] = [f[x] EXCEPT !.exists = TRUE]]
  OBVIOUS
<1>. QED
  BY <1>1, Zenon

\* What Linked does to the links.
LEMMA LinkedIs ==
    ASSUME NEW l, NEW s, Represents(l, s), NEW id \in Ids, \A k \in 1 .. Len(s) : s[k] # id,
           NEW i \in 1 .. Len(s) + 1
    PROVE  LinkedAt(Linked(l, id, At(s, i - 1), At(s, i)), l, s, i, id)
<1>. DEFINE prev == At(s, i - 1)
            next == At(s, i)
            m == Linked(l, id, prev, next)
<1>1. /\ s \in Seq(Ids) /\ Len(s) \in Nat
      /\ \A j, k \in 1 .. Len(s) : s[j] = s[k] => j = k
      /\ l.head = At(s, 1) /\ l.tail = At(s, Len(s)) /\ l.size = Len(s)
  BY ListOf
<1>2. /\ DOMAIN l.nodes = Hints
      /\ id \in Hints /\ id # Null /\ Null \in Hints
      /\ l.nodes[id] = NoNode
      /\ \A k \in 1 .. Len(s) : s[k] \in Hints /\ s[k] # Null /\ s[k] \in Ids
  BY <1>1, ListAssumption, ElementOfSeq DEF Represents, Hints
<1>3. CASE i = 1 /\ i = Len(s) + 1
  <2>1. prev = Null /\ next = Null
    BY <1>1, <1>3 DEF At
  <2>2. m = [nodes |-> [l.nodes EXCEPT ![id].exists = TRUE],
             head |-> id, tail |-> id, size |-> l.size + 1]
    BY <2>1 DEF Linked
  <2>3. m.nodes[id] = Node(Null, Null)
    <3>1. m.nodes[id] = [l.nodes[id] EXCEPT !.exists = TRUE]
      <4>. DEFINE f == [l.nodes EXCEPT ![id].exists = TRUE]
      <4>1. m.nodes = f /\ id \in DOMAIN l.nodes
        <5>1. m = [nodes |-> f, head |-> id, tail |-> id, size |-> l.size + 1]
          BY <2>2
        <5>. HIDE DEF f, m
        <5>. QED
          BY <1>2, <5>1
      <4>. HIDE DEF m
      <4>. QED
        BY <4>1, ExistsIn, Zenon
    <3>. QED
      BY <1>2, <3>1, Relinked
  <2>. HIDE DEF prev, next
  <2>. QED
    BY <1>1, <1>2, <1>3, <2>1, <2>2, <2>3 DEF LinkedAt, prev, next
<1>4. CASE i = 1 /\ i # Len(s) + 1
  <2>1. prev = Null /\ next = s[1] /\ l.head = s[1] /\ 1 \in 1 .. Len(s)
    BY <1>1, <1>4 DEF At
  <2>2. m = [nodes |-> [l.nodes EXCEPT ![id] = Node(s[1], Null), ![s[1]].prev = id],
             head |-> id, tail |-> l.tail, size |-> l.size + 1]
    <3>1. next # Null /\ next \in Hints
      BY <1>2, <2>1
    <3>2. [Node(next, Null) EXCEPT !.next = l.head] = Node(s[1], Null)
      BY <1>2, <2>1, <3>1, Relinked
    <3>3. [exists |-> TRUE, next |-> next, prev |-> prev] = Node(next, Null)
      BY <2>1 DEF Node
    <3>4. m = [nodes |-> [l.nodes EXCEPT ![id] = [[exists |-> TRUE, next |-> next, prev |-> prev]
                                                    EXCEPT !.next = l.head],
                                         ![l.head].prev = id],
               head |-> id, tail |-> l.tail, size |-> l.size + 1]
      <4>. HIDE DEF prev, next
      <4>. QED
        BY <2>1, <3>1 DEF Linked
    <3>. QED
      BY <2>1, <3>2, <3>3, <3>4
  <2>3. l.nodes[s[1]] = Node(At(s, 2), Null) /\ s[1] # id
    <3>1. l.nodes[s[1]] = Node(At(s, 1 + 1), At(s, 1 - 1))
      BY <2>1, NodeAt
    <3>. QED
      BY <2>1, <3>1 DEF At
  <2>4. /\ m.nodes[id] = Node(s[1], Null)
        /\ m.nodes[s[1]] = Node(At(s, 2), id)
        /\ \A x \in Hints : x # id /\ x # s[1] => m.nodes[x] = l.nodes[x]
        /\ DOMAIN m.nodes = Hints
    <3>. DEFINE f == [l.nodes EXCEPT ![id] = Node(s[1], Null)]
    <3>1. /\ DOMAIN f = Hints /\ f[id] = Node(s[1], Null)
          /\ f[s[1]] = Node(At(s, 2), Null)
          /\ \A x \in Hints : x # id => f[x] = l.nodes[x]
      BY <1>2, <2>1, <2>3
    <3>2. m.nodes = [f EXCEPT ![s[1]].prev = id]
      BY <2>2
    <3>3. s[1] \in Hints /\ At(s, 2) \in Hints
      BY <1>1, <1>2, <2>1, AtType
    <3>. HIDE DEF f, m
    <3>4. /\ DOMAIN m.nodes = Hints /\ m.nodes[s[1]] = Node(At(s, 2), id)
          /\ \A x \in Hints : x # s[1] => m.nodes[x] = f[x]
      BY <1>2, <3>1, <3>2, <3>3, RelinkedIn
    <3>. QED
      BY <1>2, <2>3, <3>1, <3>4
  <2>5. m.size = Len(s) + 1 /\ m.head = id /\ m.tail = At(s, Len(s))
    BY <1>1, <2>2
  <2>. HIDE DEF m
  <2>. QED
    BY <1>1, <1>4, <2>1, <2>4, <2>5 DEF LinkedAt, m
<1>5. CASE i # 1 /\ i = Len(s) + 1
  <2>. DEFINE n == Len(s)
  <2>1. prev = s[n] /\ next = Null /\ l.tail = s[n] /\ n \in 1 .. Len(s)
    BY <1>1, <1>5 DEF At
  <2>2. m = [nodes |-> [l.nodes EXCEPT ![id] = Node(Null, s[n]), ![s[n]].next = id],
             head |-> l.head, tail |-> id, size |-> l.size + 1]
    <3>1. prev # Null /\ prev \in Hints
      BY <1>2, <2>1
    <3>2. [Node(Null, prev) EXCEPT !.prev = l.tail] = Node(Null, s[n])
      BY <1>2, <2>1, <3>1, Relinked
    <3>3. [exists |-> TRUE, next |-> next, prev |-> prev] = Node(Null, prev)
      BY <2>1 DEF Node
    <3>4. m = [nodes |-> [l.nodes EXCEPT ![id] = [[exists |-> TRUE, next |-> next, prev |-> prev]
                                                    EXCEPT !.prev = l.tail],
                                         ![l.tail].next = id],
               head |-> l.head, tail |-> id, size |-> l.size + 1]
      <4>. HIDE DEF prev, next
      <4>. QED
        BY <2>1, <3>1 DEF Linked
    <3>. QED
      BY <2>1, <3>2, <3>3, <3>4
  <2>3. l.nodes[s[n]] = Node(Null, At(s, n - 1)) /\ s[n] # id
    <3>1. l.nodes[s[n]] = Node(At(s, n + 1), At(s, n - 1))
      BY <2>1, NodeAt
    <3>. QED
      BY <1>1, <2>1, <3>1 DEF At
  <2>4. /\ m.nodes[id] = Node(Null, s[n])
        /\ m.nodes[s[n]] = Node(id, At(s, n - 1))
        /\ \A x \in Hints : x # id /\ x # s[n] => m.nodes[x] = l.nodes[x]
        /\ DOMAIN m.nodes = Hints
    <3>. DEFINE f == [l.nodes EXCEPT ![id] = Node(Null, s[n])]
    <3>1. /\ DOMAIN f = Hints /\ f[id] = Node(Null, s[n])
          /\ f[s[n]] = Node(Null, At(s, n - 1))
          /\ \A x \in Hints : x # id => f[x] = l.nodes[x]
      BY <1>2, <2>1, <2>3
    <3>2. m.nodes = [f EXCEPT ![s[n]].next = id]
      BY <2>2
    <3>3. s[n] \in Hints /\ At(s, n - 1) \in Hints
      BY <1>1, <1>2, <2>1, AtType
    <3>. HIDE DEF f, m
    <3>4. /\ DOMAIN m.nodes = Hints /\ m.nodes[s[n]] = Node(id, At(s, n - 1))
          /\ \A x \in Hints : x # s[n] => m.nodes[x] = f[x]
      BY <1>2, <3>1, <3>2, <3>3, RelinkedIn
    <3>. QED
      BY <1>2, <2>3, <3>1, <3>4
  <2>5. m.size = Len(s) + 1 /\ m.head = At(s, 1) /\ m.tail = id
    BY <1>1, <2>2
  <2>6. i - 1 = n /\ i - 2 = n - 1 /\ i > 1 /\ ~(i <= Len(s))
    BY <1>1, <1>5
  <2>. HIDE DEF m
  <2>. QED
    BY <1>1, <1>5, <2>1, <2>4, <2>5, <2>6 DEF LinkedAt, m
<1>6. CASE i # 1 /\ i # Len(s) + 1
  <2>1. /\ prev = s[i - 1] /\ next = s[i]
        /\ i - 1 \in 1 .. Len(s) /\ i \in 1 .. Len(s)
    BY <1>1, <1>6 DEF At
  <2>2. m = [nodes |-> [l.nodes EXCEPT ![id] = Node(next, prev), ![prev].next = id,
                                       ![next].prev = id],
             head |-> l.head, tail |-> l.tail, size |-> l.size + 1]
    <3>1. prev # Null /\ next # Null
      BY <1>2, <2>1
    <3>. QED
      BY <3>1 DEF Linked, Node
  <2>3. /\ l.nodes[s[i - 1]] = Node(s[i], At(s, i - 2))
        /\ l.nodes[s[i]] = Node(At(s, i + 1), s[i - 1])
    <3>1. ASSUME NEW k \in 1 .. Len(s)
          PROVE  l.nodes[s[k]] = Node(At(s, k + 1), At(s, k - 1))
      BY NodeAt
    <3>2. l.nodes[s[i - 1]] = Node(At(s, (i - 1) + 1), At(s, (i - 1) - 1))
      BY <2>1, <3>1
    <3>3. l.nodes[s[i]] = Node(At(s, i + 1), At(s, i - 1))
      BY <2>1, <3>1
    <3>4. (i - 1) + 1 = i /\ (i - 1) - 1 = i - 2
      BY <2>1
    <3>. QED
      BY <2>1, <3>2, <3>3, <3>4
  <2>4. s[i - 1] # id /\ s[i] # id /\ s[i - 1] # s[i]
    BY <1>1, <2>1
  <2>5. prev \in Hints /\ next \in Hints /\ prev # id /\ next # id /\ prev # next
    BY <1>2, <2>1, <2>4
  <2>6. /\ l.nodes[prev] = Node(next, At(s, i - 2))
        /\ l.nodes[next] = Node(At(s, i + 1), prev)
    BY <2>1, <2>3
  <2>. HIDE DEF prev, next
  <2>7. /\ m.nodes[id] = Node(next, prev)
        /\ m.nodes[prev] = Node(id, At(s, i - 2))
        /\ m.nodes[next] = Node(At(s, i + 1), id)
        /\ \A x \in Hints : x # id /\ x # prev /\ x # next => m.nodes[x] = l.nodes[x]
        /\ DOMAIN m.nodes = Hints
    <3>. DEFINE f == [l.nodes EXCEPT ![id] = Node(next, prev)]
                g == [f EXCEPT ![prev].next = id]
    <3>1. /\ DOMAIN f = Hints /\ f[id] = Node(next, prev)
          /\ f[prev] = Node(next, At(s, i - 2)) /\ f[next] = Node(At(s, i + 1), prev)
          /\ \A x \in Hints : x # id => f[x] = l.nodes[x]
      BY <1>2, <2>5, <2>6
    <3>2. m.nodes = [g EXCEPT ![next].prev = id]
      BY <2>2
    <3>3. At(s, i - 2) \in Hints /\ At(s, i + 1) \in Hints
      BY <1>1, AtType
    <3>. HIDE DEF f
    <3>4. /\ DOMAIN g = Hints /\ g[prev] = Node(id, At(s, i - 2))
          /\ \A x \in Hints : x # prev => g[x] = f[x]
      BY <1>2, <2>5, <3>1, <3>3, RelinkedIn
    <3>. HIDE DEF g, m
    <3>5. g[next] = Node(At(s, i + 1), prev)
      BY <2>5, <3>1, <3>4
    <3>6. /\ DOMAIN m.nodes = Hints /\ m.nodes[next] = Node(At(s, i + 1), id)
          /\ \A x \in Hints : x # next => m.nodes[x] = g[x]
      BY <1>2, <2>5, <3>2, <3>3, <3>4, <3>5, RelinkedIn
    <3>. QED
      BY <1>2, <2>5, <3>1, <3>4, <3>6
  <2>8. m.size = Len(s) + 1 /\ m.head = At(s, 1) /\ m.tail = At(s, Len(s))
    BY <1>1, <2>2
  <2>9. i > 1 /\ i <= Len(s) /\ i # 1 /\ i # Len(s) + 1
    BY <1>1, <1>6
  <2>10. m = Linked(l, id, At(s, i - 1), At(s, i)) /\ prev = At(s, i - 1) /\ next = At(s, i)
    BY DEF prev, next
  <2>. HIDE DEF m
  <2>. QED
    BY <2>1, <2>7, <2>8, <2>9, <2>10 DEF LinkedAt
<1>. QED
  BY <1>3, <1>4, <1>5, <1>6

\* The places of the sequence after an insertion.
LEMMA AtInsert ==
    ASSUME NEW s \in Seq(Ids), NEW id \in Ids, NEW i \in 1 .. Len(s) + 1, NEW k \in Int
    PROVE  At(Sequence!InsertAt(s, i, id), k) =
             IF k < i THEN At(s, k) ELSE IF k = i THEN id ELSE At(s, k - 1)
<1>. DEFINE t == Sequence!InsertAt(s, i, id)
<1>1. /\ Len(t) = Len(s) + 1
      /\ \A j \in 1 .. Len(s) + 1 : t[j] = IF j < i THEN s[j] ELSE IF j = i THEN id ELSE s[j - 1]
  BY InsertAtElements
<1>. HIDE DEF t
<1>. QED
  BY <1>1 DEF At, t

\* The list linked is the sequence with an insertion.
LEMMA LinkedRepresents ==
    ASSUME NEW l, NEW s, Represents(l, s), NEW id \in Ids, \A k \in 1 .. Len(s) : s[k] # id,
           NEW i \in 1 .. Len(s) + 1
    PROVE  Represents(Linked(l, id, At(s, i - 1), At(s, i)), Sequence!InsertAt(s, i, id))
<1>. DEFINE m == Linked(l, id, At(s, i - 1), At(s, i))
            t == Sequence!InsertAt(s, i, id)
<1>1. /\ s \in Seq(Ids) /\ Len(s) \in Nat
      /\ \A j, k \in 1 .. Len(s) : s[j] = s[k] => j = k
  BY ListOf
<1>2. LinkedAt(m, l, s, i, id)
  BY LinkedIs
<1>3. /\ t \in Seq(Ids) /\ Len(t) = Len(s) + 1
      /\ \A k \in 1 .. Len(s) + 1 : t[k] = IF k < i THEN s[k] ELSE IF k = i THEN id ELSE s[k - 1]
  BY <1>1, InsertAtElements
<1>4. \A k \in Int : At(t, k) = IF k < i THEN At(s, k) ELSE IF k = i THEN id ELSE At(s, k - 1)
  BY <1>1, AtInsert
<1>. HIDE DEF m, t
<1>5. ASSUME NEW j \in 1 .. Len(t), NEW k \in 1 .. Len(t), t[j] = t[k]
      PROVE  j = k
  <2>. DEFINE old(n) == IF n < i THEN n ELSE n - 1
  <2>1. ASSUME NEW n \in 1 .. Len(t)
        PROVE  IF n = i THEN t[n] = id ELSE old(n) \in 1 .. Len(s) /\ t[n] = s[old(n)]
    BY <1>1, <1>3
  <2>2. CASE j = i \/ k = i
    <3>1. (j = i => t[j] = id) /\ (k = i => t[k] = id)
      BY <2>1
    <3>2. \A n \in 1 .. Len(t) : t[n] = id => n = i
      BY <2>1
    <3>. QED
      BY <1>5, <2>2, <3>1, <3>2
  <2>3. CASE j # i /\ k # i
    <3>1. old(j) = old(k)
      <4>1. old(j) \in 1 .. Len(s) /\ old(k) \in 1 .. Len(s) /\ s[old(j)] = s[old(k)]
        BY <1>5, <2>1, <2>3
      <4>. HIDE DEF old
      <4>. QED
        BY <1>1, <4>1
    <3>. QED
      BY <1>1, <1>3, <2>3, <3>1
  <2>. QED
    BY <2>2, <2>3
<1>6. m.head = At(t, 1) /\ m.tail = At(t, Len(t)) /\ m.size = Len(t) /\ DOMAIN m.nodes = Hints
  <2>1. At(t, 1) = IF i = 1 THEN id ELSE At(s, 1)
    BY <1>1, <1>4
  <2>2. At(t, Len(t)) = IF i = Len(s) + 1 THEN id ELSE At(s, Len(s))
    <3>1. Len(t) \in Int /\ Len(t) - 1 = Len(s)
      BY <1>1, <1>3
    <3>. QED
      BY <1>1, <1>3, <1>4, <3>1
  <2>. QED
    BY <1>2, <1>3, <2>1, <2>2 DEF LinkedAt
<1>7. ASSUME NEW k \in 1 .. Len(t)
      PROVE  m.nodes[t[k]] = Node(At(t, k + 1), At(t, k - 1))
  <2>1. /\ At(t, k + 1) = IF k + 1 < i THEN At(s, k + 1) ELSE IF k + 1 = i THEN id
                          ELSE At(s, k)
        /\ At(t, k - 1) = IF k - 1 < i THEN At(s, k - 1) ELSE IF k - 1 = i THEN id
                          ELSE At(s, k - 2)
    <3>1. k + 1 \in Int /\ k - 1 \in Int /\ (k + 1) - 1 = k /\ (k - 1) - 1 = k - 2
      OBVIOUS
    <3>. QED
      BY <1>4, <3>1
  <2>2. \A j \in 1 .. Len(s) : s[j] \in Hints /\ s[j] # id
    BY <1>1, ElementOfSeq DEF Hints
  <2>3. ASSUME NEW j \in 1 .. Len(s)
        PROVE  l.nodes[s[j]] = Node(At(s, j + 1), At(s, j - 1))
    BY NodeAt
  <2>4. CASE k = i
    <3>1. t[k] = id /\ At(t, k + 1) = At(s, i) /\ At(t, k - 1) = At(s, i - 1)
      BY <1>1, <1>3, <2>1, <2>4
    <3>. QED
      BY <1>2, <3>1 DEF LinkedAt
  <2>5. CASE k = i - 1
    <3>1. /\ t[k] = s[i - 1] /\ i > 1
          /\ At(t, k + 1) = id /\ At(t, k - 1) = At(s, i - 2)
      BY <1>1, <1>3, <2>1, <2>5
    <3>. QED
      BY <1>2, <3>1 DEF LinkedAt
  <2>6. CASE k = i + 1
    <3>1. /\ t[k] = s[i] /\ i <= Len(s)
          /\ At(t, k + 1) = At(s, i + 1) /\ At(t, k - 1) = id
      BY <1>1, <1>3, <2>1, <2>6
    <3>. QED
      BY <1>2, <3>1 DEF LinkedAt
  <2>7. CASE k < i - 1
    <3>1. /\ k \in 1 .. Len(s) /\ t[k] = s[k]
          /\ At(t, k + 1) = At(s, k + 1) /\ At(t, k - 1) = At(s, k - 1)
      BY <1>1, <1>3, <2>1, <2>7
    <3>2. (i > 1 => s[k] # s[i - 1]) /\ (i <= Len(s) => s[k] # s[i])
      BY <1>1, <2>7, <3>1
    <3>3. m.nodes[s[k]] = l.nodes[s[k]]
      BY <1>2, <2>2, <3>1, <3>2 DEF LinkedAt
    <3>. QED
      BY <2>3, <3>1, <3>3
  <2>8. CASE k > i + 1
    <3>1. /\ k - 1 \in 1 .. Len(s) /\ t[k] = s[k - 1]
          /\ At(t, k + 1) = At(s, (k - 1) + 1) /\ At(t, k - 1) = At(s, (k - 1) - 1)
      <4>1. (k - 1) + 1 = k /\ (k - 1) - 1 = k - 2
        OBVIOUS
      <4>. QED
        BY <1>1, <1>3, <2>1, <2>8, <4>1
    <3>2. (i > 1 => s[k - 1] # s[i - 1]) /\ (i <= Len(s) => s[k - 1] # s[i])
      BY <1>1, <2>8, <3>1
    <3>3. m.nodes[s[k - 1]] = l.nodes[s[k - 1]]
      BY <1>2, <2>2, <3>1, <3>2 DEF LinkedAt
    <3>4. l.nodes[s[k - 1]] = Node(At(s, (k - 1) + 1), At(s, (k - 1) - 1))
      BY <2>3, <3>1
    <3>. QED
      BY <3>1, <3>3, <3>4
  <2>. QED
    BY <2>4, <2>5, <2>6, <2>7, <2>8
<1>8. ASSUME NEW x \in Hints, \A k \in 1 .. Len(t) : t[k] # x
      PROVE  m.nodes[x] = NoNode
  <2>1. ASSUME NEW j \in 1 .. Len(s)
        PROVE  s[j] # x
    <3>1. CASE j < i
      <4>1. j \in 1 .. Len(t) /\ t[j] = s[j]
        BY <1>1, <1>3, <3>1
      <4>. QED
        BY <1>8, <4>1
    <3>2. CASE j >= i
      <4>1. j + 1 \in 1 .. Len(t) /\ t[j + 1] = s[j]
        BY <1>1, <1>3, <3>2
      <4>. QED
        BY <1>8, <4>1
    <3>. QED
      BY <3>1, <3>2
  <2>2. x # id
    BY <1>1, <1>3, <1>8
  <2>3. (i > 1 => x # s[i - 1]) /\ (i <= Len(s) => x # s[i])
    BY <1>1, <2>1
  <2>4. m.nodes[x] = l.nodes[x]
    BY <1>2, <2>2, <2>3 DEF LinkedAt
  <2>. QED
    BY <2>1, <2>4 DEF Represents
<1>. QED
  BY <1>3, <1>5, <1>6, <1>7, <1>8 DEF Represents, Node, m, t

\* The links of a list with its i-th node unlinked.
UnlinkedAt(m, l, s, i) ==
    /\ m.size = Len(s) - 1
    /\ m.head = IF i = 1 THEN At(s, 2) ELSE At(s, 1)
    /\ m.tail = IF i = Len(s) THEN At(s, Len(s) - 1) ELSE At(s, Len(s))
    /\ DOMAIN m.nodes = Hints
    /\ m.nodes[s[i]] = NoNode
    /\ i > 1 => m.nodes[s[i - 1]] = Node(At(s, i + 1), At(s, i - 2))
    /\ i < Len(s) => m.nodes[s[i + 1]] = Node(At(s, i + 2), At(s, i - 1))
    /\ \A x \in Hints : x # s[i] /\ (i > 1 => x # s[i - 1]) /\ (i < Len(s) => x # s[i + 1])
                          => m.nodes[x] = l.nodes[x]

\* What Unlinked does to the links.
LEMMA UnlinkedIs ==
    ASSUME NEW l, NEW s, Represents(l, s), NEW i \in 1 .. Len(s)
    PROVE  UnlinkedAt(Unlinked(l, s[i]), l, s, i)
<1>. DEFINE id == s[i]
            before == l.nodes[id].prev
            after == l.nodes[id].next
            links == CASE l.size <= 1 -> l.nodes
                       [] l.size > 1 /\ id = l.head -> [l.nodes EXCEPT ![after].prev = Null]
                       [] l.size > 1 /\ id # l.head /\ id = l.tail
                            -> [l.nodes EXCEPT ![before].next = Null]
                       [] OTHER -> [l.nodes EXCEPT ![before].next = after,
                                                   ![after].prev = before]
            m == Unlinked(l, s[i])
<1>1. /\ s \in Seq(Ids) /\ Len(s) \in Nat
      /\ \A j, k \in 1 .. Len(s) : s[j] = s[k] => j = k
      /\ l.head = At(s, 1) /\ l.tail = At(s, Len(s)) /\ l.size = Len(s)
  BY ListOf
<1>2. /\ DOMAIN l.nodes = Hints /\ Null \in Hints
      /\ \A k \in 1 .. Len(s) : s[k] \in Hints /\ s[k] # Null
  BY <1>1, ListAssumption, ElementOfSeq DEF Represents, Hints
<1>3. ASSUME NEW k \in 1 .. Len(s)
      PROVE  l.nodes[s[k]] = Node(At(s, k + 1), At(s, k - 1))
  BY NodeAt
<1>4. before = At(s, i - 1) /\ after = At(s, i + 1)
  BY NodeIn
<1>5. m = [nodes |-> [links EXCEPT ![id] = NoNode],
           head |-> IF l.size <= 1 THEN Null ELSE IF id = l.head THEN after ELSE l.head,
           tail |-> IF l.size <= 1 THEN Null
                    ELSE IF id # l.head /\ id = l.tail THEN before ELSE l.tail,
           size |-> l.size - 1]
  BY DEF Unlinked
<1>6. /\ l.size <= 1 <=> Len(s) = 1
      /\ l.size > 1 <=> Len(s) # 1
      /\ id = l.head <=> i = 1
      /\ id = l.tail <=> i = Len(s)
      /\ i = 1 \/ i > 1
      /\ i = Len(s) \/ i < Len(s)
  <2>1. l.head = s[1] /\ l.tail = s[Len(s)] /\ 1 \in 1 .. Len(s) /\ Len(s) \in 1 .. Len(s)
    BY <1>1 DEF At
  <2>2. (id = l.head <=> i = 1) /\ (id = l.tail <=> i = Len(s))
    <3>1. \A k \in 1 .. Len(s) : s[i] = s[k] => i = k
      BY <1>1
    <3>2. s[i] = s[1] => i = 1
      BY <2>1, <3>1
    <3>3. s[i] = s[Len(s)] => i = Len(s)
      BY <2>1, <3>1
    <3>. QED
      BY <2>1, <3>2, <3>3
  <2>3. (l.size <= 1 <=> Len(s) = 1) /\ (l.size > 1 <=> Len(s) # 1)
    <3>1. ASSUME NEW n \in Nat, 1 \in 1 .. n
          PROVE  (n <= 1 <=> n = 1) /\ (n > 1 <=> n # 1)
      BY <3>1
    <3>2. l.size = Len(s) /\ Len(s) \in Nat
      BY <1>1
    <3>. QED
      BY <2>1, <3>1, <3>2
  <2>4. (i = 1 \/ i > 1) /\ (i = Len(s) \/ i < Len(s))
    BY <1>1
  <2>. QED
    BY <2>2, <2>3, <2>4
<1>7. m.size = Len(s) - 1 /\ m.nodes = [links EXCEPT ![id] = NoNode]
  <2>. HIDE DEF links, id, before, after, m
  <2>. QED
    BY <1>1, <1>5
<1>8. m.head = IF i = 1 THEN At(s, 2) ELSE At(s, 1)
  <2>1. m.head = IF l.size <= 1 THEN Null ELSE IF id = l.head THEN after ELSE l.head
    <3>. HIDE DEF links, id, before, after, m
    <3>. QED
      BY <1>5
  <2>2. Len(s) = 1 => At(s, 2) = Null
    BY DEF At
  <2>3. i = 1 => after = At(s, 2)
    BY <1>4
  <2>. HIDE DEF links, id, before, after, m
  <2>. QED
    BY <1>1, <1>6, <2>1, <2>2, <2>3
<1>9. m.tail = IF i = Len(s) THEN At(s, Len(s) - 1) ELSE At(s, Len(s))
  <2>1. m.tail = IF l.size <= 1 THEN Null
                 ELSE IF id # l.head /\ id = l.tail THEN before ELSE l.tail
    <3>. HIDE DEF links, id, before, after, m
    <3>. QED
      BY <1>5
  <2>2. Len(s) = 1 => At(s, Len(s) - 1) = Null
    BY DEF At
  <2>3. i = Len(s) => before = At(s, Len(s) - 1)
    BY <1>4
  <2>. HIDE DEF links, id, before, after, m
  <2>. QED
    BY <1>1, <1>6, <2>1, <2>2, <2>3
<1>10. /\ DOMAIN links = Hints
       /\ i > 1 => links[s[i - 1]] = Node(after, At(s, i - 2))
       /\ i < Len(s) => links[s[i + 1]] = Node(At(s, i + 2), before)
       /\ \A x \in Hints : (i > 1 => x # s[i - 1]) /\ (i < Len(s) => x # s[i + 1])
                             => links[x] = l.nodes[x]
  <2>1. /\ i > 1 => /\ i - 1 \in 1 .. Len(s) /\ before = s[i - 1] /\ before \in Hints
                    /\ l.nodes[before] = Node(id, At(s, i - 2))
        /\ i < Len(s) => /\ i + 1 \in 1 .. Len(s) /\ after = s[i + 1] /\ after \in Hints
                         /\ l.nodes[after] = Node(At(s, i + 2), id)
    <3>1. /\ At(s, i) = id
          /\ (i - 1) + 1 = i /\ (i - 1) - 1 = i - 2 /\ (i + 1) + 1 = i + 2 /\ (i + 1) - 1 = i
      BY DEF At
    <3>2. ASSUME i > 1
          PROVE  /\ i - 1 \in 1 .. Len(s) /\ before = s[i - 1] /\ before \in Hints
                 /\ l.nodes[before] = Node(id, At(s, i - 2))
      <4>1. i - 1 \in 1 .. Len(s) /\ At(s, i - 1) = s[i - 1]
        BY <1>1, <3>2 DEF At
      <4>2. l.nodes[s[i - 1]] = Node(At(s, (i - 1) + 1), At(s, (i - 1) - 1))
        BY <1>3, <4>1
      <4>. HIDE DEF before, id
      <4>. QED
        BY <1>2, <1>4, <3>1, <4>1, <4>2
    <3>3. ASSUME i < Len(s)
          PROVE  /\ i + 1 \in 1 .. Len(s) /\ after = s[i + 1] /\ after \in Hints
                 /\ l.nodes[after] = Node(At(s, i + 2), id)
      <4>1. i + 1 \in 1 .. Len(s) /\ At(s, i + 1) = s[i + 1]
        BY <1>1, <3>3 DEF At
      <4>2. l.nodes[s[i + 1]] = Node(At(s, (i + 1) + 1), At(s, (i + 1) - 1))
        BY <1>3, <4>1
      <4>. HIDE DEF after, id
      <4>. QED
        BY <1>2, <1>4, <3>1, <4>1, <4>2
    <3>. QED
      BY <3>2, <3>3
  <2>2. /\ At(s, i - 2) \in Hints /\ At(s, i + 2) \in Hints /\ id \in Hints
        /\ before \in Hints /\ after \in Hints
    <3>1. At(s, i - 2) \in Hints /\ At(s, i + 2) \in Hints
          /\ At(s, i - 1) \in Hints /\ At(s, i + 1) \in Hints
      BY <1>1, AtType
    <3>. QED
      BY <1>2, <1>4, <3>1
  <2>3. i > 1 /\ i < Len(s) => before # after
    BY <1>1, <2>1
  <2>4. /\ i = 1 => before = Null
        /\ i = Len(s) => after = Null
    BY <1>4 DEF At
  <2>5. CASE Len(s) = 1
    <3>1. links = l.nodes
      BY <1>6, <2>5
    <3>2. ~(i > 1) /\ ~(i < Len(s))
      BY <2>5
    <3>. HIDE DEF links, id, before, after
    <3>. QED
      BY <1>2, <3>1, <3>2
  <2>6. CASE Len(s) # 1 /\ i = 1
    <3>1. links = [l.nodes EXCEPT ![after].prev = Null]
      <4>1. ~(l.size <= 1) /\ l.size > 1 /\ id = l.head
        BY <1>6, <2>6
      <4>. HIDE DEF id, before, after
      <4>. QED
        BY <4>1
    <3>2. i < Len(s) /\ ~(i > 1)
      BY <1>6, <2>6
    <3>. HIDE DEF links, id, before, after
    <3>3. /\ DOMAIN links = Hints /\ links[after] = Node(At(s, i + 2), Null)
          /\ \A x \in Hints : x # after => links[x] = l.nodes[x]
      <4>. DEFINE f == l.nodes
      <4>1. /\ after \in Hints /\ f[after] = Node(At(s, i + 2), id) /\ DOMAIN f = Hints
            /\ links = [f EXCEPT ![after].prev = Null]
        BY <1>2, <2>1, <3>1, <3>2
      <4>. HIDE DEF f
      <4>2. /\ DOMAIN links = Hints /\ links[after] = Node(At(s, i + 2), Null)
            /\ \A x \in Hints : x # after => links[x] = f[x]
        BY <1>2, <2>2, <4>1, RelinkedIn
      <4>. QED
        BY <4>2 DEF f
    <3>. QED
      BY <2>1, <2>4, <2>6, <3>2, <3>3
  <2>7. CASE Len(s) # 1 /\ i # 1 /\ i = Len(s)
    <3>1. links = [l.nodes EXCEPT ![before].next = Null]
      BY <1>6, <2>7
    <3>2. i > 1 /\ ~(i < Len(s))
      BY <1>1, <2>7
    <3>. HIDE DEF links, id, before, after
    <3>3. /\ DOMAIN links = Hints /\ links[before] = Node(Null, At(s, i - 2))
          /\ \A x \in Hints : x # before => links[x] = l.nodes[x]
      <4>. DEFINE f == l.nodes
      <4>1. /\ before \in Hints /\ f[before] = Node(id, At(s, i - 2)) /\ DOMAIN f = Hints
            /\ links = [f EXCEPT ![before].next = Null]
        BY <1>2, <2>1, <3>1, <3>2
      <4>. HIDE DEF f
      <4>2. /\ DOMAIN links = Hints /\ links[before] = Node(Null, At(s, i - 2))
            /\ \A x \in Hints : x # before => links[x] = f[x]
        BY <1>2, <2>2, <4>1, RelinkedIn
      <4>. QED
        BY <4>2 DEF f
    <3>. QED
      BY <2>1, <2>4, <2>7, <3>2, <3>3
  <2>8. CASE Len(s) # 1 /\ i # 1 /\ i # Len(s)
    <3>. DEFINE f == [l.nodes EXCEPT ![before].next = after]
    <3>1. links = [f EXCEPT ![after].prev = before]
      <4>1. links = [l.nodes EXCEPT ![before].next = after, ![after].prev = before]
        BY <1>6, <2>8
      <4>. HIDE DEF links, id, before, after
      <4>. QED
        BY <4>1
    <3>2. i > 1 /\ i < Len(s)
      BY <1>1, <2>8
    <3>. HIDE DEF links, id, before, after
    <3>3. /\ DOMAIN f = Hints /\ f[before] = Node(after, At(s, i - 2))
          /\ \A x \in Hints : x # before => f[x] = l.nodes[x]
      BY <1>2, <2>1, <2>2, <3>2, RelinkedIn
    <3>. HIDE DEF f
    <3>4. f[after] = Node(At(s, i + 2), id)
      BY <2>1, <2>3, <3>2, <3>3
    <3>5. /\ DOMAIN links = Hints /\ links[after] = Node(At(s, i + 2), before)
          /\ \A x \in Hints : x # after => links[x] = f[x]
      BY <2>1, <2>2, <3>1, <3>2, <3>3, <3>4, RelinkedIn
    <3>. QED
      BY <2>1, <2>3, <3>2, <3>3, <3>5
  <2>. QED
    BY <2>5, <2>6, <2>7, <2>8
<1>11. /\ i > 1 => s[i - 1] # id /\ s[i - 1] \in Hints
       /\ i < Len(s) => s[i + 1] # id /\ s[i + 1] \in Hints
       /\ id \in Hints
  BY <1>1, <1>2
<1>. HIDE DEF links, before, after, m
<1>12. /\ DOMAIN m.nodes = Hints /\ m.nodes[id] = NoNode
       /\ \A x \in Hints : x # id => m.nodes[x] = links[x]
  BY <1>7, <1>10, <1>11
<1>13. /\ i > 1 => m.nodes[s[i - 1]] = Node(At(s, i + 1), At(s, i - 2))
       /\ i < Len(s) => m.nodes[s[i + 1]] = Node(At(s, i + 2), At(s, i - 1))
  BY <1>4, <1>10, <1>11, <1>12
<1>14. \A x \in Hints : x # id /\ (i > 1 => x # s[i - 1]) /\ (i < Len(s) => x # s[i + 1])
                          => m.nodes[x] = l.nodes[x]
  BY <1>10, <1>12
<1>. QED
  BY <1>7, <1>8, <1>9, <1>12, <1>13, <1>14 DEF UnlinkedAt, m

\* The places of the sequence after a removal.
LEMMA AtRemove ==
    ASSUME NEW s \in Seq(Ids), NEW i \in 1 .. Len(s), NEW k \in Int, k >= 0 \/ i > 1
    PROVE  At(Sequence!RemoveAt(s, i), k) = IF k < i THEN At(s, k) ELSE At(s, k + 1)
<1>. DEFINE t == Sequence!RemoveAt(s, i)
<1>1. /\ Len(t) = Len(s) - 1
      /\ \A j \in 1 .. Len(s) - 1 : t[j] = IF j < i THEN s[j] ELSE s[j + 1]
  BY RemoveAtElements
<1>. HIDE DEF t
<1>. QED
  BY <1>1 DEF At, t

\* The list unlinked is the sequence with a removal.
LEMMA UnlinkedRepresents ==
    ASSUME NEW l, NEW s, Represents(l, s), NEW i \in 1 .. Len(s)
    PROVE  Represents(Unlinked(l, s[i]), Sequence!RemoveAt(s, i))
<1>. DEFINE m == Unlinked(l, s[i])
            t == Sequence!RemoveAt(s, i)
<1>1. /\ s \in Seq(Ids) /\ Len(s) \in Nat
      /\ \A j, k \in 1 .. Len(s) : s[j] = s[k] => j = k
  BY ListOf
<1>2. UnlinkedAt(m, l, s, i)
  BY UnlinkedIs
<1>3. /\ t \in Seq(Ids) /\ Len(t) = Len(s) - 1
      /\ \A k \in 1 .. Len(s) - 1 : t[k] = IF k < i THEN s[k] ELSE s[k + 1]
  BY <1>1, RemoveAtElements
<1>4. \A k \in Nat : At(t, k) = IF k < i THEN At(s, k) ELSE At(s, k + 1)
  BY <1>1, AtRemove
<1>. HIDE DEF m, t
<1>5. ASSUME NEW j \in 1 .. Len(t), NEW k \in 1 .. Len(t), t[j] = t[k]
      PROVE  j = k
  <2>. DEFINE old(n) == IF n < i THEN n ELSE n + 1
  <2>1. ASSUME NEW n \in 1 .. Len(t)
        PROVE  old(n) \in 1 .. Len(s) /\ t[n] = s[old(n)]
    BY <1>1, <1>3
  <2>2. old(j) = old(k)
    <3>1. old(j) \in 1 .. Len(s) /\ old(k) \in 1 .. Len(s) /\ s[old(j)] = s[old(k)]
      BY <1>5, <2>1
    <3>. HIDE DEF old
    <3>. QED
      BY <1>1, <3>1
  <2>. QED
    BY <1>1, <1>3, <2>2
<1>6. m.head = At(t, 1) /\ m.tail = At(t, Len(t)) /\ m.size = Len(t) /\ DOMAIN m.nodes = Hints
  <2>1. At(t, 1) = IF i = 1 THEN At(s, 2) ELSE At(s, 1)
    BY <1>1, <1>4
  <2>2. At(t, Len(t)) = IF i = Len(s) THEN At(s, Len(s) - 1) ELSE At(s, Len(s))
    <3>1. Len(t) \in Nat /\ Len(t) + 1 = Len(s) /\ Len(t) = Len(s) - 1
      BY <1>1, <1>3
    <3>2. At(t, Len(t)) = IF Len(t) < i THEN At(s, Len(t)) ELSE At(s, Len(t) + 1)
      BY <1>4, <3>1
    <3>3. Len(t) < i <=> i = Len(s)
      <4>1. ASSUME NEW n \in Nat, NEW j \in 1 .. n
            PROVE  n - 1 < j <=> j = n
        OBVIOUS
      <4>. QED
        BY <1>1, <3>1, <4>1
    <3>. QED
      BY <3>1, <3>2, <3>3
  <2>. QED
    BY <1>2, <1>3, <2>1, <2>2 DEF UnlinkedAt
<1>7. ASSUME NEW k \in 1 .. Len(t)
      PROVE  m.nodes[t[k]] = Node(At(t, k + 1), At(t, k - 1))
  <2>1. /\ At(t, k + 1) = IF k + 1 < i THEN At(s, k + 1) ELSE At(s, k + 2)
        /\ At(t, k - 1) = IF k - 1 < i THEN At(s, k - 1) ELSE At(s, k)
    <3>1. k + 1 \in Nat /\ k - 1 \in Nat /\ (k + 1) + 1 = k + 2 /\ (k - 1) + 1 = k
      BY <1>1, <1>3
    <3>. QED
      BY <1>4, <3>1
  <2>2. \A j \in 1 .. Len(s) : s[j] \in Hints
    BY <1>1, ElementOfSeq DEF Hints
  <2>3. ASSUME NEW j \in 1 .. Len(s)
        PROVE  l.nodes[s[j]] = Node(At(s, j + 1), At(s, j - 1))
    BY NodeAt
  <2>5. CASE k = i - 1
    <3>1. /\ t[k] = s[i - 1] /\ i > 1
          /\ At(t, k + 1) = At(s, i + 1) /\ At(t, k - 1) = At(s, i - 2)
      BY <1>1, <1>3, <2>1, <2>5
    <3>. QED
      BY <1>2, <3>1 DEF UnlinkedAt
  <2>6. CASE k = i
    <3>1. /\ t[k] = s[i + 1] /\ i < Len(s)
          /\ At(t, k + 1) = At(s, i + 2) /\ At(t, k - 1) = At(s, i - 1)
      BY <1>1, <1>3, <2>1, <2>6
    <3>. QED
      BY <1>2, <3>1 DEF UnlinkedAt
  <2>7. CASE k < i - 1
    <3>1. /\ k \in 1 .. Len(s) /\ t[k] = s[k]
          /\ At(t, k + 1) = At(s, k + 1) /\ At(t, k - 1) = At(s, k - 1)
      BY <1>1, <1>3, <2>1, <2>7
    <3>2. s[k] # s[i] /\ (i > 1 => s[k] # s[i - 1]) /\ (i < Len(s) => s[k] # s[i + 1])
      BY <1>1, <2>7, <3>1
    <3>3. m.nodes[s[k]] = l.nodes[s[k]]
      BY <1>2, <2>2, <3>1, <3>2 DEF UnlinkedAt
    <3>. QED
      BY <2>3, <3>1, <3>3
  <2>8. CASE k > i
    <3>1. /\ k + 1 \in 1 .. Len(s) /\ t[k] = s[k + 1]
          /\ At(t, k + 1) = At(s, (k + 1) + 1) /\ At(t, k - 1) = At(s, (k + 1) - 1)
      <4>1. (k + 1) + 1 = k + 2 /\ (k + 1) - 1 = k
        OBVIOUS
      <4>. QED
        BY <1>1, <1>3, <2>1, <2>8, <4>1
    <3>2. /\ s[k + 1] # s[i]
          /\ (i > 1 => s[k + 1] # s[i - 1]) /\ (i < Len(s) => s[k + 1] # s[i + 1])
      BY <1>1, <2>8, <3>1
    <3>3. m.nodes[s[k + 1]] = l.nodes[s[k + 1]]
      BY <1>2, <2>2, <3>1, <3>2 DEF UnlinkedAt
    <3>4. l.nodes[s[k + 1]] = Node(At(s, (k + 1) + 1), At(s, (k + 1) - 1))
      BY <2>3, <3>1
    <3>. QED
      BY <3>1, <3>3, <3>4
  <2>. QED
    BY <2>5, <2>6, <2>7, <2>8
<1>8. ASSUME NEW x \in Hints, \A k \in 1 .. Len(t) : t[k] # x
      PROVE  m.nodes[x] = NoNode
  <2>1. CASE x = s[i]
    BY <1>2, <2>1 DEF UnlinkedAt
  <2>2. CASE x # s[i]
    <3>1. ASSUME NEW j \in 1 .. Len(s)
          PROVE  s[j] # x
      <4>1. CASE j < i
        <5>1. j \in 1 .. Len(t) /\ t[j] = s[j]
          BY <1>1, <1>3, <4>1
        <5>. QED
          BY <1>8, <5>1
      <4>2. CASE j > i
        <5>1. j - 1 \in 1 .. Len(t) /\ t[j - 1] = s[j]
          BY <1>1, <1>3, <4>2
        <5>. QED
          BY <1>8, <5>1
      <4>. QED
        BY <2>2, <4>1, <4>2
    <3>2. (i > 1 => x # s[i - 1]) /\ (i < Len(s) => x # s[i + 1])
      BY <1>1, <3>1
    <3>3. m.nodes[x] = l.nodes[x]
      BY <1>2, <2>2, <3>2 DEF UnlinkedAt
    <3>. QED
      BY <3>1, <3>3 DEF Represents
  <2>. QED
    BY <2>1, <2>2
<1>. QED
  BY <1>3, <1>5, <1>6, <1>7, <1>8 DEF Represents, Node, m, t

-----------------------------------------------------------------------------
(* The steps.                                                              *)

\* Where id goes into s: a place in order with its neighbours, of a list with room.
PlacedIn(s, id, ratio, t) ==
    /\ ratio > 0 /\ Len(s) < MaxSize
    /\ \E i \in Sequence!Places(s, ratio) : t = Sequence!InsertAt(s, i, id)

\* A list is its fields.
LEMMA SameList ==
    ASSUME NEW m, NEW s, Represents(m, s),
           NEW l, l.nodes = m.nodes, l.head = m.head, l.tail = m.tail, l.size = m.size
    PROVE  Represents(l, s)
  BY DEF Represents

\* An insertion, into the list or into what a removal left of it.
LEMMA InsertStep ==
    ASSUME NEW l, NEW s, Represents(l, s), Len(s) <= MaxSize, nicr \in [Ids -> NICRs],
           NEW id \in Ids, NEW ratio \in NICRs, NEW prevHint \in Hints, NEW nextHint \in Hints,
           InsertInto(l, id, ratio, prevHint, nextHint)
    PROVE  /\ \A k \in 1 .. Len(s) : s[k] # id
           /\ \E t \in Seq(Ids) : /\ PlacedIn(s, id, ratio, t)
                                  /\ Represents(List', t) /\ Len(t) <= MaxSize
           /\ nicr' = [nicr EXCEPT ![id] = ratio] /\ nicr' \in [Ids -> NICRs]
<1>. DEFINE place == IF ValidInsertPosition(l, ratio, prevHint, nextHint)
                       THEN <<prevHint, nextHint>>
                       ELSE FindInsertPosition(l, ratio, prevHint, nextHint)
<1>1. /\ s \in Seq(Ids) /\ Len(s) \in Nat /\ l.size = Len(s)
      /\ MaxSize \in Nat /\ ratio \in Nat /\ Typed(ratio)
  <2>1. s \in Seq(Ids) /\ Len(s) \in Nat /\ l.size = Len(s)
    BY ListOf
  <2>. QED
    BY <2>1, ListAssumption DEF Typed
<1>2. /\ l.size # MaxSize /\ ~contains(l.nodes, id) /\ ratio > 0
      /\ Becomes(Linked(l, id, place[1], place[2]))
      /\ nicr' = [nicr EXCEPT ![id] = ratio]
  BY DEF InsertInto
<1>3. \A k \in 1 .. Len(s) : s[k] # id
  <2>1. ASSUME NEW k \in 1 .. Len(s)
        PROVE  l.nodes[s[k]].exists = TRUE
    BY NodeIn
  <2>. QED
    BY <1>2, <2>1 DEF contains
<1>4. PICK i \in Sequence!Places(s, ratio) : place[1] = At(s, i - 1) /\ place[2] = At(s, i)
  <2>1. CASE ValidInsertPosition(l, ratio, prevHint, nextHint)
    <3>1. PICK i \in Sequence!Places(s, ratio) : prevHint = At(s, i - 1) /\ nextHint = At(s, i)
      BY <1>1, <2>1, ValidIsPlace
    <3>2. place = <<prevHint, nextHint>>
      BY <2>1
    <3>. QED
      BY <3>1, <3>2
  <2>2. CASE ~ValidInsertPosition(l, ratio, prevHint, nextHint)
    <3>1. PICK i \in Sequence!Places(s, ratio) :
            FindInsertPosition(l, ratio, prevHint, nextHint) = <<At(s, i - 1), At(s, i)>>
      BY <1>1, FindsPlace
    <3>2. place = <<At(s, i - 1), At(s, i)>>
      BY <2>2, <3>1
    <3>. QED
      BY <3>2
  <2>. QED
    BY <2>1, <2>2
<1>. HIDE DEF place
<1>. DEFINE t == Sequence!InsertAt(s, i, id)
            m == Linked(l, id, At(s, i - 1), At(s, i))
<1>5. i \in 1 .. Len(s) + 1
  BY DEF Sequence!Places
<1>6. Represents(m, t)
  BY <1>3, <1>5, LinkedRepresents
<1>7. t \in Seq(Ids) /\ Len(t) = Len(s) + 1
  BY <1>1, <1>5, InsertAtElements
<1>8. Becomes(m)
  BY <1>2, <1>4
<1>9. Len(s) < MaxSize /\ Len(t) <= MaxSize
  BY <1>1, <1>2, <1>7
<1>. HIDE DEF m, t
<1>10. Represents(List', t)
  <2>1. /\ List'.nodes = m.nodes /\ List'.head = m.head
        /\ List'.tail = m.tail /\ List'.size = m.size
    BY <1>8 DEF Becomes, List
  <2>. QED
    BY <1>6, <2>1, SameList
<1>11. PlacedIn(s, id, ratio, t)
  BY <1>2, <1>9 DEF PlacedIn, t
<1>12. nicr' \in [Ids -> NICRs]
  BY <1>2
<1>. QED
  BY <1>2, <1>3, <1>7, <1>9, <1>10, <1>11, <1>12

\* The i-th of a list without repetitions is what Without takes out.
LEMMA WithoutIs ==
    ASSUME NEW s \in Seq(Ids), \A i, j \in 1 .. Len(s) : s[i] = s[j] => i = j,
           NEW i \in 1 .. Len(s)
    PROVE  Sequence!Without(s, s[i]) = Sequence!RemoveAt(s, i)
<1>1. (CHOOSE k \in 1 .. Len(s) : s[k] = s[i]) = i
  OBVIOUS
<1>. QED
  BY <1>1 DEF Sequence!Without

\* What a node that is in the list stands for.
LEMMA ContainedAt ==
    ASSUME NEW l, NEW s, Represents(l, s), NEW id \in Ids, contains(l.nodes, id)
    PROVE  \E i \in 1 .. Len(s) : s[i] = id
<1>1. id \in Hints
  BY DEF Hints
<1>. QED
  BY <1>1, NodeOut DEF contains

\* What a step does to the sequence.
SequenceStep(s, t) ==
    \/ \E id \in Ids, ratio \in NICRs :
        /\ \A k \in 1 .. Len(s) : s[k] # id
        /\ PlacedIn(s, id, ratio, t) /\ nicr' = [nicr EXCEPT ![id] = ratio]
    \/ \E id \in Ids, ratio \in NICRs, i \in 1 .. Len(s) :
        /\ s[i] = id
        /\ PlacedIn(Sequence!RemoveAt(s, i), id, ratio, t)
        /\ nicr' = [nicr EXCEPT ![id] = ratio]
    \/ \E i \in 1 .. Len(s) : t = Sequence!RemoveAt(s, i) /\ nicr' = nicr
    \/ t = s /\ nicr' \in [Ids -> NICRs]

\* Every step of the list is one of those.
LEMMA ListStep ==
    ASSUME NEW s \in Seq(Ids), Represents(List, s), Len(s) <= MaxSize, nicr \in [Ids -> NICRs],
           [Next]_vars
    PROVE  /\ \E t \in Seq(Ids) : SequenceStep(s, t) /\ Represents(List', t) /\ Len(t) <= MaxSize
           /\ nicr' \in [Ids -> NICRs]
<1>1. /\ Len(s) \in Nat /\ MaxSize \in Nat
      /\ \A i, j \in 1 .. Len(s) : s[i] = s[j] => i = j
  BY ListOf, ListAssumption
<1>2. List.nodes = nodes
  BY DEF List
<1>3. ASSUME NEW id \in Ids, NEW ratio \in NICRs, NEW prevHint \in Hints, NEW nextHint \in Hints,
             insert(id, ratio, prevHint, nextHint)
      PROVE  /\ \E t \in Seq(Ids) : SequenceStep(s, t) /\ Represents(List', t) /\ Len(t) <= MaxSize
             /\ nicr' \in [Ids -> NICRs]
  <2>1. InsertInto(List, id, ratio, prevHint, nextHint)
    BY <1>3 DEF insert
  <2>2. /\ \A k \in 1 .. Len(s) : s[k] # id
        /\ \E t \in Seq(Ids) : /\ PlacedIn(s, id, ratio, t)
                               /\ Represents(List', t) /\ Len(t) <= MaxSize
        /\ nicr' = [nicr EXCEPT ![id] = ratio] /\ nicr' \in [Ids -> NICRs]
    BY <2>1, InsertStep
  <2>. QED
    BY <2>2 DEF SequenceStep
<1>4. ASSUME NEW id \in Ids, NEW ratio \in NICRs, NEW prevHint \in Hints, NEW nextHint \in Hints,
             reInsert(id, ratio, prevHint, nextHint)
      PROVE  /\ \E t \in Seq(Ids) : SequenceStep(s, t) /\ Represents(List', t) /\ Len(t) <= MaxSize
             /\ nicr' \in [Ids -> NICRs]
  <2>. DEFINE l == Unlinked(List, id)
  <2>1. contains(List.nodes, id) /\ InsertInto(l, id, ratio, prevHint, nextHint)
    BY <1>2, <1>4 DEF reInsert
  <2>2. PICK i \in 1 .. Len(s) : s[i] = id
    BY <2>1, ContainedAt
  <2>. DEFINE r == Sequence!RemoveAt(s, i)
  <2>3. Represents(l, r)
    BY <2>2, UnlinkedRepresents
  <2>4. Len(r) <= MaxSize
    <3>1. Len(r) = Len(s) - 1
      BY RemoveAtElements
    <3>. HIDE DEF r
    <3>. QED
      BY <1>1, <3>1
  <2>. HIDE DEF l, r
  <2>5. /\ \E t \in Seq(Ids) : /\ PlacedIn(r, id, ratio, t)
                               /\ Represents(List', t) /\ Len(t) <= MaxSize
        /\ nicr' = [nicr EXCEPT ![id] = ratio] /\ nicr' \in [Ids -> NICRs]
    BY <2>1, <2>3, <2>4, InsertStep
  <2>. QED
    BY <2>2, <2>5 DEF SequenceStep, r
<1>5. ASSUME NEW id \in Ids, remove(id)
      PROVE  /\ \E t \in Seq(Ids) : SequenceStep(s, t) /\ Represents(List', t) /\ Len(t) <= MaxSize
             /\ nicr' \in [Ids -> NICRs]
  <2>. DEFINE l == Unlinked(List, id)
  <2>1. contains(List.nodes, id) /\ Becomes(l) /\ nicr' = nicr
    BY <1>2, <1>5 DEF remove
  <2>2. PICK i \in 1 .. Len(s) : s[i] = id
    BY <2>1, ContainedAt
  <2>. DEFINE r == Sequence!RemoveAt(s, i)
  <2>3. Represents(l, r)
    BY <2>2, UnlinkedRepresents
  <2>4. r \in Seq(Ids) /\ Len(r) = Len(s) - 1
    BY RemoveAtElements
  <2>. HIDE DEF l, r
  <2>5. Represents(List', r)
    <3>1. /\ List'.nodes = l.nodes /\ List'.head = l.head
          /\ List'.tail = l.tail /\ List'.size = l.size
      BY <2>1 DEF Becomes, List
    <3>. QED
      BY <2>3, <3>1, SameList
  <2>6. Len(r) <= MaxSize
    BY <1>1, <2>4
  <2>7. SequenceStep(s, r)
    BY <2>1 DEF SequenceStep, r
  <2>. QED
    BY <2>1, <2>4, <2>5, <2>6, <2>7
<1>6. ASSUME List' = List, nicr' \in [Ids -> NICRs]
      PROVE  \E t \in Seq(Ids) : SequenceStep(s, t) /\ Represents(List', t) /\ Len(t) <= MaxSize
  <2>1. Represents(List', s)
    BY <1>6
  <2>. QED
    BY <1>6, <2>1 DEF SequenceStep
<1>7. CASE Redistribution
  <2>1. List' = List /\ nicr' \in [Ids -> NICRs]
    BY <1>7 DEF Redistribution, List
  <2>. QED
    BY <1>6, <2>1
<1>8. CASE UNCHANGED vars
  <2>1. List' = List /\ nicr' \in [Ids -> NICRs]
    BY <1>8 DEF vars, List
  <2>. QED
    BY <1>6, <2>1
<1>. QED
  BY <1>3, <1>4, <1>5, <1>7, <1>8 DEF Next

-----------------------------------------------------------------------------
(* The theorems.                                                           *)

\* The list represents a sequence in every state.
LEMMA ListInvariant ==
    /\ Init => ListInv
    /\ ListInv /\ [Next]_vars => ListInv'
<1>1. ASSUME Init
      PROVE  ListInv
  <2>. DEFINE s == <<>>
  <2>1. s \in Seq(Ids) /\ Len(s) = 0
    OBVIOUS
  <2>2. Represents(List, s)
    <3>1. At(s, 1) = Null /\ At(s, Len(s)) = Null
      BY DEF At
    <3>2. /\ List.head = Null /\ List.tail = Null /\ List.size = 0
          /\ List.nodes = [id \in Hints |-> NoNode]
      BY <1>1 DEF Init, List, Hints
    <3>. HIDE DEF s
    <3>. QED
      BY <2>1, <3>1, <3>2 DEF Represents
  <2>3. nicr \in [Ids -> NICRs] /\ Len(s) <= MaxSize
    BY <1>1, <2>1, ListAssumption DEF Init
  <2>. HIDE DEF s
  <2>. QED
    BY <2>1, <2>2, <2>3 DEF ListInv
<1>2. ASSUME ListInv, [Next]_vars
      PROVE  ListInv'
  <2>1. PICK s \in Seq(Ids) : Represents(List, s) /\ Len(s) <= MaxSize
    BY <1>2 DEF ListInv
  <2>2. /\ \E t \in Seq(Ids) : SequenceStep(s, t) /\ Represents(List', t) /\ Len(t) <= MaxSize
        /\ nicr' \in [Ids -> NICRs]
    BY <1>2, <2>1, ListStep DEF ListInv
  <2>. QED
    BY <2>2 DEF ListInv
<1>. QED
  BY <1>1, <1>2

\* The list can be read from either end: whatever the hints, it stays a sequence of
\* distinct users, each with links to the one before it and to the one after it, its
\* ends and its length those the contract keeps, and no link left on a user outside it.
THEOREM ListIsTwoWay == Spec => []ListInv
<1>. QED
  BY ListInvariant, PTL DEF Spec

\* Read along the next links, it is that sequence.
LEMMA ForwardIs ==
    ASSUME NEW s, Represents(List, s)
    PROVE  Forward = s
<1>1. Chain(List.nodes, List.head) = s
  BY ChainIs
<1>. QED
  BY <1>1 DEF Forward, List

\* Also after a step.
LEMMA ForwardBecomes ==
    ASSUME NEW s, Represents(List', s)
    PROVE  Forward' = s
<1>1. ASSUME NEW l, Represents(l, s)
      PROVE  Chain(l.nodes, l.head) = s
  BY <1>1, ChainIs
<1>2. Chain(List'.nodes, List'.head) = s
  BY <1>1
<1>3. List'.nodes = nodes' /\ List'.head = head'
  BY DEF List
<1>. QED
  BY <1>2, <1>3 DEF Forward

\* What a step does to Forward is what a step of the sequence does.
LEMMA StepImplements ==
    ASSUME NEW s \in Seq(Ids), \A i, j \in 1 .. Len(s) : s[i] = s[j] => i = j,
           Forward = s, NEW t, Forward' = t, SequenceStep(s, t)
    PROVE  [Sequence!Next]_(Sequence!listVars)
<1>1. ASSUME NEW id \in Ids, NEW ratio \in NICRs, \A k \in 1 .. Len(s) : s[k] # id,
             PlacedIn(s, id, ratio, t), nicr' = [nicr EXCEPT ![id] = ratio]
      PROVE  Sequence!Next
  <2>1. Sequence!Place(s, id, ratio)
    BY <1>1 DEF PlacedIn, Sequence!Place
  <2>2. ~Sequence!Contains(s, id)
    BY <1>1 DEF Sequence!Contains
  <2>3. Sequence!InsertTrove(id, ratio)
    BY <2>1, <2>2 DEF Sequence!InsertTrove
  <2>. QED
    BY <2>3 DEF Sequence!Next
<1>2. ASSUME NEW id \in Ids, NEW ratio \in NICRs, NEW i \in 1 .. Len(s), s[i] = id,
             PlacedIn(Sequence!RemoveAt(s, i), id, ratio, t), nicr' = [nicr EXCEPT ![id] = ratio]
      PROVE  Sequence!Next
  <2>1. Sequence!Without(s, id) = Sequence!RemoveAt(s, i)
    BY <1>2, WithoutIs
  <2>2. Sequence!Place(Sequence!Without(s, id), id, ratio)
    BY <1>2, <2>1 DEF PlacedIn, Sequence!Place
  <2>3. Sequence!Contains(s, id)
    BY <1>2 DEF Sequence!Contains
  <2>4. Sequence!ReInsertTrove(id, ratio)
    BY <2>2, <2>3 DEF Sequence!ReInsertTrove
  <2>. QED
    BY <2>4 DEF Sequence!Next
<1>3. ASSUME NEW i \in 1 .. Len(s), t = Sequence!RemoveAt(s, i), nicr' = nicr
      PROVE  Sequence!Next
  <2>1. s[i] \in Ids /\ Sequence!Contains(s, s[i])
    BY ElementOfSeq DEF Sequence!Contains
  <2>2. Sequence!Without(s, s[i]) = t
    BY <1>3, WithoutIs
  <2>3. Sequence!RemoveTrove(s[i])
    BY <1>3, <2>1, <2>2 DEF Sequence!RemoveTrove
  <2>. QED
    BY <2>1, <2>3 DEF Sequence!Next
<1>4. ASSUME t = s, nicr' \in [Ids -> NICRs]
      PROVE  Sequence!Next
  BY <1>4 DEF Sequence!Next, Sequence!Drift
<1>. QED
  BY <1>1, <1>2, <1>3, <1>4 DEF SequenceStep

\* The doubly linked list of SortedTroves.sol does what the sequence promises, with any
\* number of users and any size: whichever hints come, stale or false, the pair of
\* neighbours the walk arrives at is one between which the ratio belongs at that moment,
\* and nothing else of the list moves.
THEOREM ListImplementsSequence == Spec => ImplementsSequence
<1>1. Init => Sequence!Init
  <2>. SUFFICES ASSUME Init
                PROVE  Sequence!Init
    OBVIOUS
  <2>. DEFINE s == <<>>
  <2>1. Represents(List, s)
    <3>1. PICK r \in Seq(Ids) : Represents(List, r)
      BY ListInvariant DEF ListInv
    <3>2. Len(r) = 0
      <4>1. List.size = Len(r)
        BY <3>1, ListOf
      <4>. QED
        BY <4>1 DEF Init, List
    <3>3. r = <<>>
      BY <3>2, EmptySeq
    <3>. QED
      BY <3>1, <3>3
  <2>2. Forward = <<>>
    BY <2>1, ForwardIs
  <2>. QED
    BY <2>2 DEF Init, Sequence!Init
<1>2. ListInv /\ [Next]_vars => [Sequence!Next]_(Sequence!listVars)
  <2>. SUFFICES ASSUME ListInv, [Next]_vars
                PROVE  [Sequence!Next]_(Sequence!listVars)
    OBVIOUS
  <2>1. PICK s \in Seq(Ids) : Represents(List, s) /\ Len(s) <= MaxSize
    BY DEF ListInv
  <2>2. PICK t \in Seq(Ids) : SequenceStep(s, t) /\ Represents(List', t)
    BY <2>1, ListStep DEF ListInv
  <2>3. Forward = s /\ Forward' = t
    BY <2>1, <2>2, ForwardIs, ForwardBecomes
  <2>4. \A i, j \in 1 .. Len(s) : s[i] = s[j] => i = j
    BY <2>1, ListOf
  <2>. QED
    BY <2>2, <2>3, <2>4, StepImplements
<1>. QED
  BY <1>1, <1>2, ListInvariant, PTL DEF Spec, ImplementsSequence, Sequence!Spec

\* A sequence in order of the ratios r.
InOrder(s, r) == \A i \in 1 .. Len(s) - 1 : r[s[i]] >= r[s[i + 1]]

\* In order, each ratio is at least every later one.
LEMMA InOrderFar ==
    ASSUME NEW s \in Seq(Ids), NEW r \in [Ids -> Nat], InOrder(s, r),
           NEW i \in 1 .. Len(s), NEW j \in 1 .. Len(s), i <= j
    PROVE  r[s[i]] >= r[s[j]]
<1>. DEFINE Far(n) == i + n <= Len(s) => r[s[i]] >= r[s[i + n]]
<1>1. \A k \in 1 .. Len(s) : s[k] \in Ids /\ r[s[k]] \in Nat
  BY ElementOfSeq
<1>. DEFINE Reached == {n \in Nat : Far(n)}
<1>2. 0 \in Reached
  BY <1>1
<1>3. ASSUME NEW n \in Nat, n \in Reached
      PROVE  n + 1 \in Reached
  <2>1. ASSUME i + (n + 1) <= Len(s)
        PROVE  r[s[i]] >= r[s[i + (n + 1)]]
    <3>1. i + n \in 1 .. Len(s) - 1 /\ i + n <= Len(s) /\ (i + n) + 1 = i + (n + 1)
          /\ i + (n + 1) \in 1 .. Len(s) /\ i + n \in 1 .. Len(s)
      BY <2>1
    <3>2. r[s[i]] >= r[s[i + n]]
      BY <1>3, <3>1
    <3>3. r[s[i + n]] >= r[s[(i + n) + 1]]
      BY <3>1 DEF InOrder
    <3>. DEFINE a == r[s[i]]
                b == r[s[i + n]]
                c == r[s[i + (n + 1)]]
    <3>4. a \in Nat /\ b \in Nat /\ c \in Nat /\ a >= b /\ b >= c
      BY <1>1, <3>1, <3>2, <3>3
    <3>. HIDE DEF a, b, c
    <3>5. a >= c
      BY <3>4
    <3>. QED
      BY <3>5 DEF a, c
  <2>. QED
    BY <2>1
<1>4. Nat \subseteq Reached
  <2>. HIDE DEF Reached
  <2>. QED
    BY <1>2, <1>3, InductionOnNat
<1>5. j - i \in Nat /\ i + (j - i) = j /\ j <= Len(s)
  OBVIOUS
<1>6. Far(j - i)
  BY <1>4, <1>5
<1>. QED
  BY <1>5, <1>6

\* What is taken out of a sequence in order leaves one.
LEMMA RemovalKeepsOrder ==
    ASSUME NEW s \in Seq(Ids), NEW r \in [Ids -> Nat], InOrder(s, r), NEW i \in 1 .. Len(s)
    PROVE  InOrder(Sequence!RemoveAt(s, i), r)
<1>. DEFINE t == Sequence!RemoveAt(s, i)
<1>1. /\ Len(t) = Len(s) - 1
      /\ \A k \in 1 .. Len(s) - 1 : t[k] = IF k < i THEN s[k] ELSE s[k + 1]
  BY RemoveAtElements
<1>. HIDE DEF t
<1>2. ASSUME NEW k \in 1 .. Len(t) - 1
      PROVE  r[t[k]] >= r[t[k + 1]]
  <2>. DEFINE j == IF k < i THEN k ELSE k + 1
              n == IF k + 1 < i THEN k + 1 ELSE k + 2
  <2>1. t[k] = s[j] /\ t[k + 1] = s[n]
    <3>1. k \in 1 .. Len(s) - 1 /\ k + 1 \in 1 .. Len(s) - 1 /\ (k + 1) + 1 = k + 2
      BY <1>1
    <3>. QED
      BY <1>1, <3>1
  <2>2. j \in 1 .. Len(s) /\ n \in 1 .. Len(s) /\ j <= n
    BY <1>1
  <2>. HIDE DEF j, n
  <2>. QED
    BY <2>1, <2>2, InOrderFar
<1>. QED
  BY <1>2 DEF InOrder, t

\* And what is put at one of its places.
LEMMA PlacementKeepsOrder ==
    ASSUME NEW s \in Seq(Ids), nicr \in [Ids -> Nat], InOrder(s, nicr),
           NEW id \in Ids, \A k \in 1 .. Len(s) : s[k] # id, NEW ratio \in Nat,
           NEW t, PlacedIn(s, id, ratio, t)
    PROVE  InOrder(t, [nicr EXCEPT ![id] = ratio])
<1>. DEFINE r == [nicr EXCEPT ![id] = ratio]
<1>1. PICK i \in Sequence!Places(s, ratio) : t = Sequence!InsertAt(s, i, id)
  BY DEF PlacedIn
<1>2. /\ i \in 1 .. Len(s) + 1 /\ Len(s) \in Nat
      /\ i = 1 \/ nicr[s[i - 1]] >= ratio
      /\ i = Len(s) + 1 \/ ratio >= nicr[s[i]]
  BY DEF Sequence!Places
<1>3. /\ Len(t) = Len(s) + 1
      /\ \A k \in 1 .. Len(s) + 1 : t[k] = IF k < i THEN s[k] ELSE IF k = i THEN id ELSE s[k - 1]
  BY <1>1, <1>2, InsertAtElements
<1>4. /\ r[id] = ratio
      /\ \A k \in 1 .. Len(s) : r[s[k]] = nicr[s[k]]
  BY ElementOfSeq
<1>. HIDE DEF r
<1>5. ASSUME NEW k \in 1 .. Len(t) - 1
      PROVE  r[t[k]] >= r[t[k + 1]]
  <2>1. k \in 1 .. Len(s) /\ k \in 1 .. Len(s) + 1 /\ k + 1 \in 1 .. Len(s) + 1
    BY <1>2, <1>3
  <2>2. CASE k + 1 < i
    <3>1. t[k] = s[k] /\ t[k + 1] = s[k + 1] /\ k + 1 \in 1 .. Len(s) /\ k \in 1 .. Len(s) - 1
      BY <1>2, <1>3, <2>1, <2>2
    <3>. QED
      BY <1>4, <2>1, <3>1 DEF InOrder
  <2>3. CASE k + 1 = i
    <3>1. t[k] = s[i - 1] /\ t[k + 1] = id /\ i # 1 /\ i - 1 \in 1 .. Len(s)
      BY <1>2, <1>3, <2>1, <2>3
    <3>. QED
      BY <1>2, <1>4, <3>1
  <2>4. CASE k = i
    <3>1. t[k] = id /\ t[k + 1] = s[i] /\ i # Len(s) + 1 /\ i \in 1 .. Len(s)
      BY <1>2, <1>3, <2>1, <2>4
    <3>. QED
      BY <1>2, <1>4, <3>1
  <2>5. CASE k > i
    <3>1. t[k] = s[k - 1] /\ t[k + 1] = s[(k - 1) + 1]
          /\ k - 1 \in 1 .. Len(s) - 1 /\ k - 1 \in 1 .. Len(s) /\ (k - 1) + 1 \in 1 .. Len(s)
      BY <1>2, <1>3, <2>1, <2>5
    <3>. QED
      BY <1>4, <3>1 DEF InOrder
  <2>. QED
    BY <1>2, <2>1, <2>2, <2>3, <2>4, <2>5
<1>. QED
  BY <1>5 DEF InOrder, r

\* An operation on a list in order leaves it in order, whatever the hints: it is only
\* the drift of the ratios that disorders it.
THEOREM ListKeepsOrder == Spec => OperationsKeepOrder
<1>1. ListInv /\ [Next]_vars => [(Sorted /\ Forward # Forward') => (Sorted' = TRUE)]_vars
  <2>. SUFFICES ASSUME ListInv, [Next]_vars, Sorted, Forward # Forward'
                PROVE  Sorted'
    BY DEF Sorted
  <2>1. PICK s \in Seq(Ids) : Represents(List, s) /\ Len(s) <= MaxSize
    BY DEF ListInv
  <2>2. PICK t \in Seq(Ids) : SequenceStep(s, t) /\ Represents(List', t)
    BY <2>1, ListStep DEF ListInv
  <2>3. Forward = s /\ Forward' = t /\ t # s
    BY <2>1, <2>2, ForwardIs, ForwardBecomes
  <2>4. InOrder(s, nicr)
    BY <2>3 DEF Sorted, InOrder
  <2>5. nicr \in [Ids -> Nat] /\ NICRs \subseteq Nat
    BY ListAssumption DEF ListInv
  <2>6. InOrder(t, nicr')
    <3>1. ASSUME NEW id \in Ids, NEW ratio \in NICRs, \A k \in 1 .. Len(s) : s[k] # id,
                 PlacedIn(s, id, ratio, t), nicr' = [nicr EXCEPT ![id] = ratio]
          PROVE  InOrder(t, nicr')
      <4>1. InOrder(t, [nicr EXCEPT ![id] = ratio])
        BY <2>4, <2>5, <3>1, PlacementKeepsOrder
      <4>. QED
        BY <3>1, <4>1
    <3>2. ASSUME NEW id \in Ids, NEW ratio \in NICRs, NEW i \in 1 .. Len(s), s[i] = id,
                 PlacedIn(Sequence!RemoveAt(s, i), id, ratio, t),
                 nicr' = [nicr EXCEPT ![id] = ratio]
          PROVE  InOrder(t, nicr')
      <4>. DEFINE u == Sequence!RemoveAt(s, i)
      <4>1. u \in Seq(Ids) /\ InOrder(u, nicr)
        BY <2>4, <2>5, RemoveAtElements, RemovalKeepsOrder
      <4>2. \A k \in 1 .. Len(u) : u[k] # id
        <5>1. /\ Len(u) = Len(s) - 1
              /\ \A k \in 1 .. Len(s) - 1 : u[k] = IF k < i THEN s[k] ELSE s[k + 1]
          BY RemoveAtElements
        <5>2. \A k \in 1 .. Len(s) : s[k] = id => k = i
          BY <2>1, <3>2, ListOf
        <5>. HIDE DEF u
        <5>. QED
          BY <5>1, <5>2
      <4>. HIDE DEF u
      <4>3. PlacedIn(u, id, ratio, t)
        BY <3>2 DEF u
      <4>4. InOrder(t, [nicr EXCEPT ![id] = ratio])
        BY <2>5, <4>1, <4>2, <4>3, PlacementKeepsOrder
      <4>. QED
        BY <3>2, <4>4
    <3>3. ASSUME NEW i \in 1 .. Len(s), t = Sequence!RemoveAt(s, i), nicr' = nicr
          PROVE  InOrder(t, nicr')
      BY <2>4, <2>5, <3>3, RemovalKeepsOrder
    <3>. QED
      BY <2>2, <2>3, <3>1, <3>2, <3>3 DEF SequenceStep
  <2>. QED
    BY <2>3, <2>6 DEF Sorted, InOrder
<1>. QED
  BY <1>1, ListInvariant, PTL DEF Spec, OperationsKeepOrder

=============================================================================
