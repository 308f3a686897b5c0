----------------------------- MODULE SumsProofs -----------------------------
(***************************************************************************)
(* What a sum does when one value changes, when two functions are added,   *)
(* and when all values are multiplied.  The accounting invariants of the   *)
(* trove system, of the Unipool and of the staking contract rest on these. *)
(*                                                                         *)
(* A sum is the size of a set, so that the facts follow from the theorems  *)
(* on the cardinality of unions and images.  Only the multiple is by       *)
(* induction, which is stated for a set, since the provers instantiate no  *)
(* operator: it rests on the well-foundedness of strict inclusion.  A last *)
(* section has the induction for loops, recursive functions whose argument *)
(* shrinks, which the decay of the rate and the walks of the list need.    *)
(***************************************************************************)
EXTENDS Sums, FiniteSetTheorems, WellFoundedInduction, TLAPS

\* The set that Total counts.
AllUnits(f) == UNION {Units(f, x) : x \in DOMAIN f}

\* Its elements.
LEMMA UnitsOf ==
    ASSUME NEW D, NEW f \in [D -> Nat]
    PROVE  AllUnits(f) = {p \in D \X Nat : 1 <= p[2] /\ p[2] <= f[p[1]]}
<1>1. ASSUME NEW p \in AllUnits(f)
      PROVE  p \in D \X Nat /\ 1 <= p[2] /\ p[2] <= f[p[1]]
  <2>1. PICK x \in D : p \in {x} \X (1..f[x])
    BY DEF AllUnits, Units
  <2>. QED  BY <2>1
<1>2. ASSUME NEW p \in D \X Nat, 1 <= p[2], p[2] <= f[p[1]]
      PROVE  p \in AllUnits(f)
  <2>1. p[1] \in D /\ p \in {p[1]} \X (1..f[p[1]])
    BY <1>2
  <2>. QED  BY <2>1 DEF AllUnits, Units
<1>. QED  BY <1>1, <1>2

\* A sum over a finite domain is a natural number.
LEMMA TotalType ==
    ASSUME NEW D, IsFiniteSet(D), NEW f \in [D -> Nat]
    PROVE  IsFiniteSet(AllUnits(f)) /\ Total(f) \in Nat
<1>. DEFINE Parts == {Units(f, x) : x \in D}
            part  == [x \in D |-> Units(f, x)]
<1>1. part \in Surjection(D, Parts)
  BY DEF Surjection
<1>2. IsFiniteSet(Parts)
  BY <1>1, FS_Surjection
<1>3. ASSUME NEW x \in D
      PROVE  IsFiniteSet(Units(f, x))
  <2>1. IsFiniteSet({x})
    BY FS_Singleton
  <2>2. IsFiniteSet(1..f[x])
    BY FS_Interval
  <2>3. IsFiniteSet({x} \X (1..f[x]))
    BY <2>1, <2>2, FS_Product
  <2>. QED  BY <2>3 DEF Units
<1>4. IsFiniteSet(UNION Parts)
  BY <1>2, <1>3, FS_UNION
<1>5. AllUnits(f) = UNION Parts /\ Total(f) = Cardinality(AllUnits(f))
  BY DEF AllUnits, Total
<1>. QED  BY <1>4, <1>5, FS_CardinalityType

\* The sum of zeros.
LEMMA TotalZero ==
    ASSUME NEW D, NEW f \in [D -> Nat], \A x \in D : f[x] = 0
    PROVE  Total(f) = 0
<1>1. AllUnits(f) = {}
  BY UnitsOf
<1>. QED  BY <1>1, FS_EmptySet DEF Total, AllUnits

\* A sum with one term.
LEMMA TotalOfOne ==
    ASSUME NEW D, NEW x \in D, NEW f \in [D -> Nat], \A y \in D \ {x} : f[y] = 0
    PROVE  Total(f) = f[x]
<1>1. AllUnits(f) = {x} \X (1..f[x])
  <2>1. AllUnits(f) = {p \in D \X Nat : 1 <= p[2] /\ p[2] <= f[p[1]]}
    BY UnitsOf
  <2>2. ASSUME NEW p \in D \X Nat, 1 <= p[2], p[2] <= f[p[1]]
        PROVE  p \in {x} \X (1..f[x])
    <3>1. p[1] = x
      BY <2>2
    <3>. QED  BY <2>2, <3>1
  <2>3. ASSUME NEW p \in {x} \X (1..f[x])
        PROVE  p \in D \X Nat /\ 1 <= p[2] /\ p[2] <= f[p[1]]
    OBVIOUS
  <2>. QED  BY <2>1, <2>2, <2>3
<1>2. IsFiniteSet({x}) /\ Cardinality({x}) = 1
  BY FS_Singleton
<1>3. IsFiniteSet(1..f[x]) /\ Cardinality(1..f[x]) = f[x]
  BY FS_Interval
<1>4. Cardinality({x} \X (1..f[x])) = Cardinality({x}) * Cardinality(1..f[x])
  BY <1>2, <1>3, FS_Product
<1>5. Cardinality(AllUnits(f)) = f[x]
  BY <1>1, <1>2, <1>3, <1>4
<1>. QED  BY <1>5 DEF Total, AllUnits

\* A sum grows with its terms.
LEMMA TotalLeq ==
    ASSUME NEW D, IsFiniteSet(D), NEW f \in [D -> Nat], NEW g \in [D -> Nat],
           \A x \in D : f[x] <= g[x]
    PROVE  Total(f) <= Total(g)
<1>1. AllUnits(f) \subseteq AllUnits(g)
  BY UnitsOf
<1>2. Cardinality(AllUnits(f)) <= Cardinality(AllUnits(g))
  BY <1>1, TotalType, FS_Subset
<1>. QED  BY <1>2 DEF Total, AllUnits

\* Sums are added term by term: the units of g are counted on top of those of f.
LEMMA TotalAdd ==
    ASSUME NEW D, IsFiniteSet(D), NEW f \in [D -> Nat], NEW g \in [D -> Nat],
           NEW h \in [D -> Nat], \A x \in D : h[x] = f[x] + g[x]
    PROVE  Total(h) = Total(f) + Total(g)
<1>. DEFINE Top  == {p \in D \X Nat : f[p[1]] < p[2] /\ p[2] <= h[p[1]]}
            lift == [p \in AllUnits(g) |-> <<p[1], f[p[1]] + p[2]>>]
<1>1. h \in [D -> Nat] /\ \A x \in D : h[x] = f[x] + g[x]
  OBVIOUS
<1>2. AllUnits(h) = AllUnits(f) \cup Top /\ AllUnits(f) \cap Top = {}
  BY <1>1, UnitsOf
<1>3. lift \in Bijection(AllUnits(g), Top)
  <2>1. \A p \in AllUnits(g) : p \in D \X Nat /\ 1 <= p[2] /\ p[2] <= g[p[1]]
    BY UnitsOf
  <2>2. ASSUME NEW p \in AllUnits(g)
        PROVE  lift[p] \in Top
    <3>1. /\ p[1] \in D /\ p[2] \in Nat /\ 1 <= p[2] /\ p[2] <= g[p[1]]
          /\ f[p[1]] \in Nat /\ g[p[1]] \in Nat /\ h[p[1]] = f[p[1]] + g[p[1]]
      BY <2>1
    <3>. QED  BY <3>1
  <2>3. ASSUME NEW p \in AllUnits(g), NEW q \in AllUnits(g), lift[p] = lift[q]
        PROVE  p = q
    <3>1. /\ p = <<p[1], p[2]>> /\ q = <<q[1], q[2]>>
          /\ p[1] = q[1] /\ f[p[1]] + p[2] = f[q[1]] + q[2]
          /\ p[2] \in Nat /\ q[2] \in Nat /\ f[p[1]] \in Nat
      BY <2>1, <2>3
    <3>. QED  BY <3>1
  <2>4. ASSUME NEW q \in Top
        PROVE  \E p \in AllUnits(g) : lift[p] = q
    <3>. DEFINE p == <<q[1], q[2] - f[q[1]]>>
    <3>1. /\ q = <<q[1], q[2]>> /\ q[1] \in D /\ q[2] \in Nat
          /\ f[q[1]] \in Nat /\ g[q[1]] \in Nat
          /\ f[q[1]] < q[2] /\ q[2] <= f[q[1]] + g[q[1]]
      BY <1>1
    <3>2. p \in D \X Nat /\ 1 <= p[2] /\ p[2] <= g[p[1]]
      BY <3>1
    <3>3. p \in AllUnits(g)
      BY <3>2, UnitsOf
    <3>4. lift[p] = q
      BY <3>1, <3>3
    <3>. QED  BY <3>3, <3>4
  <2>. QED  BY <2>2, <2>3, <2>4 DEF Bijection, Injection, Surjection, IsInjective
<1>. HIDE DEF Top, lift
<1>4. /\ IsFiniteSet(AllUnits(f)) /\ IsFiniteSet(AllUnits(g))
      /\ Total(f) \in Nat /\ Total(g) \in Nat
  BY TotalType
<1>5. IsFiniteSet(Top) /\ Cardinality(Top) = Cardinality(AllUnits(g))
  BY <1>3, <1>4, FS_Bijection DEF ExistsBijection
<1>6. Cardinality(AllUnits(h)) = Cardinality(AllUnits(f)) + Cardinality(AllUnits(g)) - 0
  BY <1>2, <1>4, <1>5, FS_Union, FS_EmptySet
<1>7. /\ Total(h) = Cardinality(AllUnits(h)) /\ Total(f) = Cardinality(AllUnits(f))
      /\ Total(g) = Cardinality(AllUnits(g))
  BY DEF Total, AllUnits
<1>. QED  BY <1>4, <1>6, <1>7

\* One value changes: the sum changes by as much.
LEMMA TotalChange ==
    ASSUME NEW D, IsFiniteSet(D), NEW x \in D, NEW f \in [D -> Nat], NEW g \in [D -> Nat],
           \A y \in D \ {x} : g[y] = f[y]
    PROVE  /\ Total(g) = (Total(f) - f[x]) + g[x]
           /\ f[x] <= Total(f)
<1>. DEFINE rest == [y \in D |-> IF y = x THEN 0 ELSE f[y]]
            old  == [y \in D |-> IF y = x THEN f[x] ELSE 0]
            new  == [y \in D |-> IF y = x THEN g[x] ELSE 0]
<1>1. /\ rest \in [D -> Nat] /\ old \in [D -> Nat] /\ new \in [D -> Nat]
      /\ old[x] = f[x] /\ \A y \in D \ {x} : old[y] = 0
      /\ new[x] = g[x] /\ \A y \in D \ {x} : new[y] = 0
      /\ \A y \in D : f[y] = rest[y] + old[y]
      /\ \A y \in D : g[y] = rest[y] + new[y]
  OBVIOUS
<1>. HIDE DEF rest, old, new
<1>2. Total(old) = f[x] /\ Total(new) = g[x]
  BY <1>1, TotalOfOne
<1>3. Total(f) = Total(rest) + Total(old)
  <2>1. \A y \in D : f[y] = rest[y] + old[y]
    BY <1>1
  <2>2. rest \in [D -> Nat] /\ old \in [D -> Nat]
    BY <1>1
  <2>. QED
    BY <2>1, <2>2, TotalAdd
<1>4. Total(g) = Total(rest) + Total(new)
  <2>1. \A y \in D : g[y] = rest[y] + new[y]
    BY <1>1
  <2>2. rest \in [D -> Nat] /\ new \in [D -> Nat]
    BY <1>1
  <2>. QED
    BY <2>1, <2>2, TotalAdd
<1>5. Total(rest) \in Nat
  BY <1>1, TotalType
<1>. QED  BY <1>2, <1>3, <1>4, <1>5

\* Induction over the natural numbers, for a set.  The intervals 0..n with n not in S
\* have no least element.
LEMMA InductionOnNat ==
    ASSUME NEW S, 0 \in S, \A n \in Nat : n \in S => n + 1 \in S
    PROVE  Nat \subseteq S
<1>. SUFFICES ASSUME NEW d \in Nat, d \notin S
              PROVE  FALSE
  OBVIOUS
<1>. DEFINE Bad == {I \in SUBSET (0..d) : \E n \in 0..d : n \notin S /\ I = 0..n}
<1>1. IsWellFoundedOn(StrictSubsetOrdering(0..d), FiniteSubsetsOf(0..d))
  BY FS_StrictSubsetOrderingWellFounded
<1>2. Bad \subseteq FiniteSubsetsOf(0..d) /\ Bad # {}
  <2>1. IsFiniteSet(0..d)
    BY FS_Interval
  <2>2. \A I \in SUBSET (0..d) : IsFiniteSet(I)
    BY <2>1, FS_Subset
  <2>3. 0..d \in Bad
    OBVIOUS
  <2>. QED  BY <2>2, <2>3 DEF FiniteSubsetsOf
<1>3. PICK I \in Bad : \A J \in Bad : ~(<<J, I>> \in StrictSubsetOrdering(0..d))
  BY <1>1, <1>2, WFMin
<1>4. PICK n \in 0..d : n \notin S /\ I = 0..n
  BY <1>3
<1>5. n # 0 /\ n - 1 \in 0..d /\ (n - 1) + 1 = n
  BY <1>4
<1>6. n - 1 \notin S
  BY <1>4, <1>5
<1>7. 0..(n - 1) \in Bad /\ 0..(n - 1) \subseteq 0..n /\ 0..(n - 1) # 0..n
  <2>1. n \in 0..n /\ n \notin 0..(n - 1)
    BY <1>5
  <2>. QED  BY <1>5, <1>6, <2>1
<1>8. <<0..(n - 1), I>> \in StrictSubsetOrdering(0..d)
  BY <1>4, <1>7 DEF StrictSubsetOrdering
<1>. QED  BY <1>3, <1>7, <1>8

\* All values are multiplied by the same number.
LEMMA TotalTimes ==
    ASSUME NEW D, IsFiniteSet(D), NEW f \in [D -> Nat], NEW d \in Nat,
           NEW g \in [D -> Nat], \A x \in D : g[x] = d * f[x]
    PROVE  Total(g) = d * Total(f)
<1>. DEFINE times(n) == [x \in D |-> n * f[x]]
            Good     == {n \in Nat : Total(times(n)) = n * Total(f)}
<1>1. /\ \A n \in Nat : times(n) \in [D -> Nat]
      /\ \A x \in D : times(0)[x] = 0
      /\ g = times(d)
  OBVIOUS
<1>2. ASSUME NEW n \in Nat, NEW x \in D
      PROVE  times(n + 1)[x] = times(n)[x] + f[x]
  <2>1. f[x] \in Nat /\ (n + 1) * f[x] = n * f[x] + f[x]
    OBVIOUS
  <2>. QED  BY <2>1
<1>. HIDE DEF times
<1>3. Total(f) \in Nat
  BY TotalType
<1>4. 0 \in Good
  BY <1>1, <1>3, TotalZero
<1>5. ASSUME NEW n \in Nat, n \in Good
      PROVE  n + 1 \in Good
  <2>1. times(n) \in [D -> Nat] /\ times(n + 1) \in [D -> Nat]
    BY <1>1
  <2>2. \A x \in D : times(n + 1)[x] = times(n)[x] + f[x]
    BY <1>2
  <2>3. Total(times(n + 1)) = Total(times(n)) + Total(f)
    BY <2>1, <2>2, TotalAdd
  <2>4. (n + 1) * Total(f) = n * Total(f) + Total(f)
    BY <1>3
  <2>. QED  BY <1>5, <2>3, <2>4
<1>6. Nat \subseteq Good
  <2>. HIDE DEF Good
  <2>. QED  BY <1>4, <1>5, InductionOnNat
<1>. QED  BY <1>1, <1>6

-----------------------------------------------------------------------------
(* Loops.                                                                  *)

\* A loop on the states of S: as long as its size is above 1, a step makes it smaller.
Shrinks(S, size, next) ==
    /\ size \in [S -> Nat] /\ next \in [S -> S]
    /\ \A s \in S : size[s] > 1 => size[next[s]] < size[s]

\* f is what the loop returns from each state, last what it returns when it stops there.
Returns(S, size, next, last, f) ==
    \A s \in S : f[s] = IF size[s] > 1 THEN f[next[s]] ELSE last[s]

\* A loop that shrinks computes a function: the one that agrees, at each state, with
\* those that are right up to the size of that state.
LEMMA LoopFunction ==
    ASSUME NEW S, NEW R, NEW size, NEW next, NEW last,
           Shrinks(S, size, next), last \in [S -> R]
    PROVE  \E f \in [S -> R] : Returns(S, size, next, last, f)
<1>. USE DEF Shrinks
<1>. DEFINE step(g)  == [s \in S |-> IF size[s] > 1 THEN g[next[s]] ELSE last[s]]
            Right(n) == {g \in [S -> R] :
                            \A s \in S : size[s] <= n => g[s] = step(g)[s]}
<1>1. ASSUME NEW g \in [S -> R]
      PROVE  step(g) \in [S -> R]
  OBVIOUS
<1>2. ASSUME NEW n \in Nat, NEW g \in Right(n)
      PROVE  step(g) \in Right(n + 1)
  <2>1. step(g) \in [S -> R]
    BY <1>1
  <2>2. ASSUME NEW s \in S, size[s] <= n + 1
        PROVE  step(g)[s] = step(step(g))[s]
    <3>1. CASE ~ (size[s] > 1)
      BY <3>1
    <3>2. CASE size[s] > 1
      <4>1. next[s] \in S /\ size[next[s]] <= n
        BY <2>2, <3>2
      <4>2. g[next[s]] = step(g)[next[s]]
        BY <4>1
      <4>3. step(g)[s] = g[next[s]] /\ step(step(g))[s] = step(g)[next[s]]
        BY <3>2
      <4>. QED  BY <4>2, <4>3
    <3>. QED  BY <3>1, <3>2
  <2>. QED  BY <2>1, <2>2
<1>3. \A n \in Nat : Right(n) # {}
  <2>. DEFINE Has == {n \in Nat : Right(n) # {}}
  <2>1. 0 \in Has
    <3>1. last \in Right(0)
      OBVIOUS
    <3>. QED  BY <3>1
  <2>2. ASSUME NEW n \in Nat, n \in Has
        PROVE  n + 1 \in Has
    <3>. HIDE DEF Right, step
    <3>. QED  BY <1>2, <2>2
  <2>3. Nat \subseteq Has
    <3>. HIDE DEF Has
    <3>. QED  BY <2>1, <2>2, InductionOnNat
  <2>. QED  BY <2>3
<1>4. ASSUME NEW n \in Nat, NEW g \in Right(n), NEW h \in Right(n)
      PROVE  \A s \in S : size[s] <= n => g[s] = h[s]
  <2>. DEFINE Same == {m \in Nat : \A s \in S : size[s] <= m /\ size[s] <= n => g[s] = h[s]}
  <2>1. 0 \in Same
    OBVIOUS
  <2>2. ASSUME NEW m \in Nat, m \in Same
        PROVE  m + 1 \in Same
    <3>1. ASSUME NEW s \in S, size[s] <= m + 1, size[s] <= n
          PROVE  g[s] = h[s]
      <4>1. g[s] = step(g)[s] /\ h[s] = step(h)[s]
        BY <3>1
      <4>2. CASE size[s] > 1
        <5>1. next[s] \in S /\ size[next[s]] <= m /\ size[next[s]] <= n
          BY <3>1, <4>2
        <5>2. g[next[s]] = h[next[s]]
          BY <2>2, <5>1
        <5>. QED  BY <4>1, <4>2, <5>2
      <4>3. CASE ~ (size[s] > 1)
        BY <4>1, <4>3
      <4>. QED  BY <4>2, <4>3
    <3>. QED  BY <3>1
  <2>3. Nat \subseteq Same
    <3>. HIDE DEF Same
    <3>. QED  BY <2>1, <2>2, InductionOnNat
  <2>4. n \in Same
    BY <2>3
  <2>. QED  BY <2>4
<1>. DEFINE chosen(n) == CHOOSE g : g \in Right(n)
            f         == [s \in S |-> chosen(size[s])[s]]
<1>5. \A n \in Nat : chosen(n) \in Right(n)
  <2>. HIDE DEF Right
  <2>. QED  BY <1>3
<1>6. \A n \in Nat : chosen(n) \in [S -> R]
  BY <1>5
<1>. HIDE DEF chosen
<1>7. f \in [S -> R]
  BY <1>6
<1>8. ASSUME NEW s \in S
      PROVE  f[s] = IF size[s] > 1 THEN f[next[s]] ELSE last[s]
  <2>. DEFINE g == chosen(size[s])
              h == chosen(size[next[s]])
  <2>1. g \in Right(size[s]) /\ h \in Right(size[next[s]])
    BY <1>5
  <2>2. f[s] = g[s] /\ f[next[s]] = h[next[s]]
    OBVIOUS
  <2>. HIDE DEF g, h, f
  <2>3. g[s] = IF size[s] > 1 THEN g[next[s]] ELSE last[s]
    BY <2>1
  <2>4. CASE size[s] > 1
    <3>1. size[next[s]] < size[s] /\ size[next[s]] \in Nat /\ size[s] \in Nat
      BY <2>4
    <3>2. g \in Right(size[next[s]])
      BY <2>1, <3>1
    <3>3. g[next[s]] = h[next[s]]
      <4>. HIDE DEF Right
      <4>. QED  BY <1>4, <2>1, <3>1, <3>2
    <3>. QED  BY <2>2, <2>3, <2>4, <3>3
  <2>5. CASE ~ (size[s] > 1)
    BY <2>2, <2>3, <2>5
  <2>. QED  BY <2>4, <2>5
<1>. QED  BY <1>7, <1>8 DEF Returns

=============================================================================
