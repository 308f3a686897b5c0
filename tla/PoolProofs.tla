----------------------------- MODULE PoolProofs -----------------------------
(***************************************************************************)
(* Proofs about the deposits of the stability pool and what they earn, for *)
(* any precisions and any number of depositors.                            *)
(*                                                                         *)
(* What a deposit has become is a floor, so that a bound on the sum of the *)
(* deposits is not inductive.  What is: the sum of what the deposits would *)
(* have become without any division.  Each is a fraction with the P of its *)
(* snapshot in the denominator, and all are taken in a unit that every     *)
(* such P divides.  A loss takes from all of these claims in proportion,   *)
(* and what it takes too little, because the claims exceed the total, the  *)
(* error kept for the next loss has made up for already.                   *)
(*                                                                         *)
(* Gains of collateral are treated alike: without its divisions, a gain    *)
(* grows by the gain per unit times the claim of the deposit, so that all  *)
(* gains grow by more than the pool gets only as the claims exceed the     *)
(* total.                                                                  *)
(***************************************************************************)
EXTENDS StabilityPool, SumsProofs

-----------------------------------------------------------------------------
(* Arithmetic.                                                             *)

LEMMA TimesNat == ASSUME NEW a \in Nat, NEW b \in Nat PROVE a * b \in Nat
  BY SMT

LEMMA TimesLeq ==
    ASSUME NEW a \in Nat, NEW b \in Nat, NEW c \in Nat, a <= b
    PROVE  a * c <= b * c /\ c * a <= c * b
  BY SMT

LEMMA Reorder ==
    ASSUME NEW a \in Nat, NEW b \in Nat, NEW c \in Nat
    PROVE  (a * b) * c = a * (b * c) /\ a * b = b * a /\ (a * b) * c = (a * c) * b
  BY SMT

LEMMA CancelLeq ==
    ASSUME NEW a \in Int, NEW b \in Int, NEW c \in Nat \ {0}, c * a <= c * b
    PROVE  a <= b
  BY SMT

\* The floor of n over d is the largest number whose d-fold is at most n.
LEMMA FloorIs ==
    ASSUME NEW n \in Nat, NEW d \in Nat \ {0}
    PROVE  /\ n \div d \in Nat
           /\ (n \div d) * d <= n
           /\ n < (n \div d + 1) * d
           /\ \A x \in Nat : x * d <= n => x <= n \div d
<1>1. n \div d \in Nat /\ (n \div d) * d <= n /\ n < (n \div d + 1) * d
  BY SMT
<1>2. ASSUME NEW x \in Nat, x * d <= n PROVE x <= n \div d
  BY <1>2, SMT
<1>. QED
  BY <1>1, <1>2

LEMMA FloorExact ==
    ASSUME NEW q \in Nat, NEW d \in Nat \ {0}
    PROVE  (d * q) \div d = q
  BY SMT

\* Of the numbers 1 to n there is a common multiple.
LEMMA CommonMultiple ==
    \A n \in Nat : \E c \in Nat \ {0} : \A k \in 1 .. n : \E q \in Nat : c = k * q
<1>. DEFINE Multiple(c, n) == \A k \in 1 .. n : \E q \in Nat : c = k * q
            S == {n \in Nat : \E c \in Nat \ {0} : Multiple(c, n)}
<1>1. 0 \in S
  <2>1. Multiple(1, 0)
    OBVIOUS
  <2>. QED
    BY <2>1
<1>2. ASSUME NEW n \in Nat, n \in S
      PROVE  n + 1 \in S
  <2>1. PICK c \in Nat \ {0} : Multiple(c, n)
    BY <1>2
  <2>2. c * (n + 1) \in Nat \ {0}
    OBVIOUS
  <2>3. ASSUME NEW k \in 1 .. n + 1
        PROVE  \E q \in Nat : c * (n + 1) = k * q
    <3>1. CASE k = n + 1
      <4>1. c * (n + 1) = k * c
        BY <3>1, Reorder
      <4>. QED
        BY <4>1
    <3>2. CASE k # n + 1
      <4>1. PICK q \in Nat : c = k * q
        BY <2>1, <3>2
      <4>2. c * (n + 1) = k * (q * (n + 1)) /\ q * (n + 1) \in Nat
        BY <4>1, Reorder, TimesNat
      <4>. QED
        BY <4>2
    <3>. QED
      BY <3>1, <3>2
  <2>4. Multiple(c * (n + 1), n + 1) /\ n + 1 \in Nat
    BY <2>3
  <2>. HIDE DEF Multiple
  <2>. QED
    BY <2>2, <2>4
<1>. HIDE DEF S
<1>3. Nat \subseteq S
  BY <1>1, <1>2, InductionOnNat
<1>. QED
  BY <1>3 DEF S

-----------------------------------------------------------------------------
(* The invariant.                                                          *)

\* P never exceeds this: a product below SCALE_FACTOR is scaled up once.
MaxP == DECIMAL_PRECISION + SCALE_FACTOR * SCALE_FACTOR

\* Claims are counted in units that the P of every snapshot divides.
Common == CHOOSE c \in Nat \ {0} : \A k \in 1 .. MaxP : \E q \in Nat : c = k * q
Unit   == Common * SCALE_FACTOR

\* What a deposit is worth for each unit of P.
Share(d) == d.value * (Common \div d.snap.P)

\* What a deposit has become, before any division.
Claim(p, d) ==
    IF d.value = 0 \/ d.snap.epoch < p.epoch THEN 0
    ELSE CASE p.scale - d.snap.scale = 0 -> (Share(d) * p.P) * SCALE_FACTOR
           [] p.scale - d.snap.scale = 1 -> Share(d) * p.P
           [] OTHER -> 0

Claims == Total([u \in Users |-> Claim(pool, deposits[u])])

PoolInv ==
    /\ DOMAIN pool = {"P", "S", "G", "scale", "epoch", "FIL", "total", "FILError",
                      "lossError", "tokenError"}
    /\ pool.P \in 1 .. MaxP
    /\ pool.scale \in 0 .. MaxScale /\ pool.epoch \in Epochs
    /\ pool.S \in [Epochs -> [Scales -> Nat]]
    /\ pool.total \in 0 .. MaxDeposits /\ pool.lossError \in 0 .. MaxDeposits
    /\ pool.FILError \in Nat

\* A deposit with the snapshot of a pool that was.
IsDeposit(p, d) ==
    /\ d.value \in Nat
    /\ d.value > 0 =>
         /\ d.snap.P \in 1 .. MaxP
         /\ d.snap.epoch \in Epochs /\ d.snap.epoch <= p.epoch
         /\ d.snap.scale \in 0 .. MaxScale
         /\ d.snap.epoch = p.epoch => d.snap.scale <= p.scale
         /\ d.snap.S \in Nat /\ d.snap.S <= p.S[d.snap.epoch][d.snap.scale]

DepositsInv ==
    /\ DOMAIN deposits = Users
    /\ \A u \in Users : IsDeposit(pool, deposits[u])

\* The claims exceed the pool's total by less than what MaxDeposits is at the precision
\* of P, and by that much less than the error of the last loss.
ClaimsInv ==
    DECIMAL_PRECISION * Claims + Unit * pool.lossError
      <= Unit * (pool.total * DECIMAL_PRECISION + MaxDeposits)

PoolProofInv == PoolInv /\ DepositsInv /\ ClaimsInv

LEMMA ConstantTypes ==
    /\ DECIMAL_PRECISION \in Nat \ {0} /\ SCALE_FACTOR \in Nat \ {0}
    /\ MaxP \in Nat \ {0} /\ MaxDeposits \in Nat /\ MaxScale \in Nat /\ MaxEpoch \in Nat
    /\ Common \in Nat \ {0} /\ Unit \in Nat \ {0}
    /\ \A k \in 1 .. MaxP : Common \div k \in Nat /\ Common = k * (Common \div k)
<1>1. /\ DECIMAL_PRECISION \in Nat \ {0} /\ SCALE_FACTOR \in Nat \ {0}
      /\ MaxDeposits \in Nat /\ MaxScale \in Nat /\ MaxEpoch \in Nat
  BY PoolAssumption
<1>2. MaxP \in Nat \ {0}
  BY <1>1, TimesNat DEF MaxP
<1>3. Common \in Nat \ {0} /\ \A k \in 1 .. MaxP : \E q \in Nat : Common = k * q
  <2>1. \E c \in Nat \ {0} : \A k \in 1 .. MaxP : \E q \in Nat : c = k * q
    BY <1>2, CommonMultiple
  <2>. QED
    BY <2>1 DEF Common
<1>4. Unit \in Nat \ {0}
  <2>. HIDE DEF Common
  <2>. QED
    BY <1>1, <1>3 DEF Unit
<1>5. ASSUME NEW k \in 1 .. MaxP
      PROVE  Common \div k \in Nat /\ Common = k * (Common \div k)
  <2>1. PICK q \in Nat : Common = k * q
    BY <1>3
  <2>2. k \in Nat \ {0}
    BY <1>2
  <2>. QED
    BY <2>1, <2>2, FloorExact
<1>. QED
  BY <1>1, <1>2, <1>3, <1>4, <1>5

-----------------------------------------------------------------------------
(* Claims.                                                                 *)

\* The claim of a deposit is a natural number of units and covers what it has become.
LEMMA ClaimCovers ==
    ASSUME PoolInv, NEW d, IsDeposit(pool, d)
    PROVE  /\ Claim(pool, d) \in Nat
           /\ Compounded(pool, d.value, d.snap) \in Nat
           /\ Unit * Compounded(pool, d.value, d.snap) <= Claim(pool, d)
<1>. DEFINE p == pool
            v == d.value
            s == d.snap.P
            q == Common \div s
            become == Compounded(pool, d.value, d.snap)
<1>1. CASE v = 0 \/ d.snap.epoch < p.epoch
  BY <1>1, ConstantTypes DEF Claim, Compounded
<1>2. CASE ~(v = 0 \/ d.snap.epoch < p.epoch)
  <2>1. /\ v \in Nat /\ s \in Nat \ {0} /\ q \in Nat /\ Common = s * q
        /\ p.P \in Nat /\ SCALE_FACTOR \in Nat \ {0} /\ Unit \in Nat
    <3>1. v \in Nat /\ s \in 1 .. MaxP
      BY <1>2 DEF IsDeposit
    <3>2. q \in Nat /\ Common = s * q
      BY <3>1, ConstantTypes
    <3>3. s \in Nat \ {0} /\ p.P \in Nat
      BY <3>1, ConstantTypes DEF PoolInv
    <3>. QED
      BY <3>1, <3>2, <3>3, ConstantTypes
  <2>. DEFINE n    == v * p.P
              x    == n \div s
              y    == x \div SCALE_FACTOR
              diff == p.scale - d.snap.scale
              left == CASE diff = 0 -> x [] diff = 1 -> y [] OTHER -> 0
  <2>2. n \in Nat
    BY <2>1, TimesNat
  <2>3. x \in Nat /\ x * s <= n
    <3>. HIDE DEF n
    <3>. QED
      BY <2>1, <2>2, FloorIs
  <2>4. y \in Nat /\ y * SCALE_FACTOR <= x
    <3>. HIDE DEF x
    <3>. QED
      BY <2>1, <2>3, FloorIs
  <2>5. Share(d) = v * q /\ v * q \in Nat /\ Share(d) * p.P = q * n /\ q * n \in Nat
    <3>1. Share(d) = v * q /\ v * q \in Nat
      BY <2>1, TimesNat DEF Share
    <3>2. (v * q) * p.P = q * n
      BY <2>1, Reorder, TimesNat
    <3>. QED
      BY <2>1, <2>2, <3>1, <3>2, TimesNat
  <2>6. become = IF left < v \div SCALE_FACTOR THEN 0 ELSE left
    BY <1>2 DEF Compounded
  <2>7. Common * x <= q * n /\ Common * x \in Nat
    <3>1. Common * x = q * (x * s)
      <4>. HIDE DEF x, q
      <4>. QED
        BY <2>1, <2>3, Reorder
    <3>. HIDE DEF n, x
    <3>2. x * s \in Nat
      BY <2>1, <2>3, TimesNat
    <3>. QED
      BY <2>1, <2>2, <2>3, <3>1, <3>2, TimesLeq, TimesNat
  <2>. HIDE DEF n, x, y, q, become
  <2>8. CASE diff = 0
    <3>1. Claim(p, d) = (q * n) * SCALE_FACTOR
      BY <1>2, <2>5, <2>8 DEF Claim
    <3>2. Unit * x = (Common * x) * SCALE_FACTOR
      BY <2>1, <2>3, ConstantTypes, Reorder DEF Unit
    <3>3. Unit * x <= Claim(p, d) /\ Claim(p, d) \in Nat /\ Unit * x \in Nat
      BY <2>1, <2>3, <2>5, <2>7, <3>1, <3>2, TimesLeq, TimesNat
    <3>4. become = x \/ become = 0
      BY <2>6, <2>8
    <3>. QED
      BY <2>1, <2>3, <3>3, <3>4 DEF become
  <2>9. CASE diff = 1
    <3>1. Claim(p, d) = q * n
      BY <1>2, <2>5, <2>9 DEF Claim
    <3>2. Unit * y = Common * (y * SCALE_FACTOR)
      BY <2>1, <2>4, ConstantTypes, Reorder DEF Unit
    <3>3. Common * (y * SCALE_FACTOR) <= Common * x
      BY <2>1, <2>3, <2>4, ConstantTypes, TimesLeq, TimesNat
    <3>4. Unit * y <= Claim(p, d) /\ Claim(p, d) \in Nat /\ Unit * y \in Nat
      BY <2>1, <2>4, <2>5, <2>7, <3>1, <3>2, <3>3, TimesNat
    <3>5. become = y \/ become = 0
      BY <2>6, <2>9
    <3>. QED
      BY <2>1, <2>4, <3>4, <3>5 DEF become
  <2>10. CASE ~(diff = 0 \/ diff = 1)
    <3>1. Claim(p, d) = 0 /\ become = 0
      BY <1>2, <2>6, <2>10 DEF Claim
    <3>. QED
      BY <2>1, <3>1 DEF become
  <2>. QED
    BY <2>8, <2>9, <2>10
<1>. QED
  BY <1>1, <1>2

-----------------------------------------------------------------------------
(* A loss.                                                                 *)

\* P, scale and epoch after a loss of l per unit of DECIMAL_PRECISION.
LEMMA ProductBounds ==
    ASSUME PoolInv, NEW l \in Nat, l <= DECIMAL_PRECISION
    PROVE  LET n == NewProduct(pool, l)
               f == DECIMAL_PRECISION - l
           IN /\ n.P \in 0 .. MaxP /\ n.scale \in Nat /\ n.epoch \in Nat
              /\ f \in Nat
              /\ \/ n.epoch = pool.epoch + 1 /\ n.scale = 0 /\ f = 0
                 \/ /\ n.epoch = pool.epoch /\ n.scale = pool.scale
                    /\ n.P * DECIMAL_PRECISION <= pool.P * f
                 \/ /\ n.epoch = pool.epoch /\ n.scale = pool.scale + 1
                    /\ n.P * DECIMAL_PRECISION <= (pool.P * f) * SCALE_FACTOR
<1>. DEFINE f == DECIMAL_PRECISION - l
            m == pool.P * f
            n == NewProduct(pool, l)
            product == m \div DECIMAL_PRECISION
            scaled == (m * SCALE_FACTOR) \div DECIMAL_PRECISION
<1>1. /\ pool.P \in Nat /\ pool.P <= MaxP /\ pool.scale \in Nat /\ pool.epoch \in Nat
      /\ DECIMAL_PRECISION \in Nat \ {0} /\ SCALE_FACTOR \in Nat \ {0} /\ MaxP \in Nat
      /\ DECIMAL_PRECISION <= MaxP /\ SCALE_FACTOR * SCALE_FACTOR <= MaxP
  <2>1. SCALE_FACTOR * SCALE_FACTOR \in Nat
    BY ConstantTypes, TimesNat
  <2>. QED
    BY <2>1, ConstantTypes DEF PoolInv, Epochs, MaxP
<1>2. f \in Nat /\ f <= DECIMAL_PRECISION
  BY <1>1
<1>3. m \in Nat
  BY <1>1, <1>2, TimesNat
<1>4. n = IF f = 0
            THEN [P |-> DECIMAL_PRECISION, scale |-> 0, epoch |-> pool.epoch + 1]
          ELSE IF product < SCALE_FACTOR
            THEN [P |-> scaled, scale |-> pool.scale + 1, epoch |-> pool.epoch]
          ELSE [P |-> product, scale |-> pool.scale, epoch |-> pool.epoch]
  BY DEF NewProduct
<1>. HIDE DEF f, n
<1>5. /\ product \in Nat /\ product * DECIMAL_PRECISION <= m
      /\ m < (product + 1) * DECIMAL_PRECISION
  <2>. HIDE DEF m
  <2>. QED
    BY <1>1, <1>3, FloorIs
<1>6. scaled \in Nat /\ scaled * DECIMAL_PRECISION <= m * SCALE_FACTOR
  <2>1. m * SCALE_FACTOR \in Nat
    BY <1>1, <1>3, TimesNat
  <2>. QED
    BY <1>1, <2>1, FloorIs
<1>. HIDE DEF product, scaled
<1>7. product <= pool.P
  <2>1. m <= pool.P * DECIMAL_PRECISION
    BY <1>1, <1>2, TimesLeq
  <2>. HIDE DEF m
  <2>2. product * DECIMAL_PRECISION <= pool.P * DECIMAL_PRECISION
    BY <1>1, <1>3, <1>5, <2>1, TimesNat
  <2>. QED
    BY <1>1, <1>5, <2>2, CancelLeq, Reorder
<1>. HIDE DEF m
<1>8. ASSUME product < SCALE_FACTOR
      PROVE  scaled <= SCALE_FACTOR * SCALE_FACTOR
  <2>1. product + 1 \in Nat /\ product + 1 <= SCALE_FACTOR
    BY <1>1, <1>5, <1>8
  <2>2. (product + 1) * DECIMAL_PRECISION <= SCALE_FACTOR * DECIMAL_PRECISION
    BY <1>1, <2>1, TimesLeq
  <2>3. m <= SCALE_FACTOR * DECIMAL_PRECISION
    BY <1>1, <1>3, <1>5, <2>1, <2>2, TimesNat
  <2>4. m * SCALE_FACTOR <= (SCALE_FACTOR * DECIMAL_PRECISION) * SCALE_FACTOR
    BY <1>1, <1>3, <2>3, TimesLeq, TimesNat
  <2>5. (SCALE_FACTOR * DECIMAL_PRECISION) * SCALE_FACTOR
          = (SCALE_FACTOR * SCALE_FACTOR) * DECIMAL_PRECISION
    BY <1>1, Reorder
  <2>6. /\ m * SCALE_FACTOR \in Nat /\ SCALE_FACTOR * SCALE_FACTOR \in Nat
        /\ (SCALE_FACTOR * SCALE_FACTOR) * DECIMAL_PRECISION \in Nat
        /\ scaled * DECIMAL_PRECISION \in Nat
    BY <1>1, <1>3, <1>6, TimesNat
  <2>7. scaled * DECIMAL_PRECISION <= (SCALE_FACTOR * SCALE_FACTOR) * DECIMAL_PRECISION
    BY <1>6, <2>4, <2>5, <2>6
  <2>. QED
    BY <1>1, <1>6, <2>6, <2>7, CancelLeq, Reorder
<1>9. CASE f = 0
  BY <1>1, <1>2, <1>4, <1>9 DEF n, f
<1>10. CASE f # 0 /\ product < SCALE_FACTOR
  <2>1. n.P = scaled /\ n.scale = pool.scale + 1 /\ n.epoch = pool.epoch
    BY <1>4, <1>10
  <2>2. scaled <= MaxP
    <3>1. SCALE_FACTOR * SCALE_FACTOR \in Nat
      BY <1>1, TimesNat
    <3>. QED
      BY <1>1, <1>6, <1>8, <1>10, <3>1
  <2>. QED
    BY <1>1, <1>2, <1>6, <2>1, <2>2 DEF n, f, m
<1>11. CASE f # 0 /\ ~(product < SCALE_FACTOR)
  <2>1. n.P = product /\ n.scale = pool.scale /\ n.epoch = pool.epoch
    BY <1>4, <1>11
  <2>2. product <= MaxP
    BY <1>1, <1>5, <1>7
  <2>. QED
    BY <1>1, <1>2, <1>5, <2>1, <2>2 DEF n, f, m
<1>. QED
  BY <1>9, <1>10, <1>11

\* Every claim shrinks at least in the proportion of the loss.
LEMMA ClaimShrinks ==
    ASSUME PoolInv, NEW d, IsDeposit(pool, d), NEW l \in Nat, l <= DECIMAL_PRECISION,
           pool'.P = NewProduct(pool, l).P, pool'.scale = NewProduct(pool, l).scale,
           pool'.epoch = NewProduct(pool, l).epoch
    PROVE  /\ Claim(pool', d) \in Nat
           /\ DECIMAL_PRECISION * Claim(pool', d) <= (DECIMAL_PRECISION - l) * Claim(pool, d)
<1>. DEFINE f == DECIMAL_PRECISION - l
            a == Share(d)
<1>1. /\ pool'.P \in Nat /\ pool'.scale \in Nat /\ pool'.epoch \in Nat /\ f \in Nat
      /\ \/ pool'.epoch = pool.epoch + 1 /\ f = 0
         \/ /\ pool'.epoch = pool.epoch /\ pool'.scale = pool.scale
            /\ pool'.P * DECIMAL_PRECISION <= pool.P * f
         \/ /\ pool'.epoch = pool.epoch /\ pool'.scale = pool.scale + 1
            /\ pool'.P * DECIMAL_PRECISION <= (pool.P * f) * SCALE_FACTOR
  BY ProductBounds, ConstantTypes
<1>2. /\ Claim(pool, d) \in Nat /\ pool.P \in Nat /\ pool.scale \in Nat /\ pool.epoch \in Nat
      /\ DECIMAL_PRECISION \in Nat \ {0} /\ SCALE_FACTOR \in Nat \ {0}
  <2>1. Claim(pool, d) \in Nat
    BY ClaimCovers
  <2>2. pool.P \in Nat /\ pool.scale \in Nat /\ pool.epoch \in Nat
    BY ConstantTypes DEF PoolInv, Epochs
  <2>. QED
    BY <2>1, <2>2, ConstantTypes
<1>. HIDE DEF f
<1>3. f * Claim(pool, d) \in Nat
  BY <1>1, <1>2, TimesNat
<1>4. CASE d.value = 0 \/ d.snap.epoch < pool'.epoch
  <2>1. Claim(pool', d) = 0
    BY <1>4 DEF Claim
  <2>. QED
    BY <1>2, <1>3, <2>1 DEF f
<1>5. CASE ~(d.value = 0 \/ d.snap.epoch < pool'.epoch)
  <2>1. /\ d.value \in Nat /\ d.snap.P \in 1 .. MaxP /\ d.snap.scale \in Nat
        /\ d.snap.epoch \in Nat /\ d.snap.epoch <= pool.epoch
        /\ d.snap.epoch = pool.epoch => d.snap.scale <= pool.scale
    BY <1>5, ConstantTypes DEF IsDeposit, Epochs
  <2>2. a \in Nat
    BY <2>1, ConstantTypes, TimesNat DEF Share
  <2>3. pool'.epoch = pool.epoch /\ ~(d.snap.epoch < pool.epoch) /\ d.snap.scale <= pool.scale
    BY <1>1, <1>2, <1>5, <2>1
  <2>. HIDE DEF a
  <2>. DEFINE diff == pool.scale - d.snap.scale
              new  == pool'.scale - d.snap.scale
              g    == pool.P * f
  <2>4. /\ Claim(pool, d) = CASE diff = 0 -> (a * pool.P) * SCALE_FACTOR
                              [] diff = 1 -> a * pool.P
                              [] OTHER -> 0
        /\ Claim(pool', d) = CASE new = 0 -> (a * pool'.P) * SCALE_FACTOR
                               [] new = 1 -> a * pool'.P
                               [] OTHER -> 0
    BY <1>5, <2>3 DEF Claim, a
  <2>5. diff \in Nat /\ new \in Nat
    BY <1>1, <1>2, <2>1, <2>3
  <2>6. g \in Nat /\ a * g \in Nat /\ a * g = f * (a * pool.P)
    <3>1. a * (pool.P * f) = (a * pool.P) * f /\ (a * pool.P) * f = f * (a * pool.P)
      BY <1>1, <1>2, <2>2, Reorder, TimesNat
    <3>. QED
      BY <1>1, <1>2, <2>2, <3>1, TimesNat
  <2>7. DECIMAL_PRECISION * (a * pool'.P) = a * (pool'.P * DECIMAL_PRECISION)
    BY <1>1, <1>2, <2>2, Reorder, TimesNat
  <2>8. a * pool.P \in Nat /\ a * pool'.P \in Nat /\ pool'.P * DECIMAL_PRECISION \in Nat
    BY <1>1, <1>2, <2>2, TimesNat
  <2>9. CASE pool'.scale = pool.scale /\ pool'.P * DECIMAL_PRECISION <= g
    <3>1. DECIMAL_PRECISION * (a * pool'.P) <= f * (a * pool.P)
      BY <2>2, <2>6, <2>7, <2>8, <2>9, TimesLeq
    <3>2. CASE diff = 0
      <4>1. /\ Claim(pool, d) = (a * pool.P) * SCALE_FACTOR
            /\ Claim(pool', d) = (a * pool'.P) * SCALE_FACTOR
        BY <2>4, <2>9, <3>2
      <4>2. (DECIMAL_PRECISION * (a * pool'.P)) * SCALE_FACTOR
              <= (f * (a * pool.P)) * SCALE_FACTOR
        BY <1>1, <1>2, <2>8, <3>1, TimesLeq, TimesNat
      <4>3. /\ DECIMAL_PRECISION * Claim(pool', d)
                 = (DECIMAL_PRECISION * (a * pool'.P)) * SCALE_FACTOR
            /\ f * Claim(pool, d) = (f * (a * pool.P)) * SCALE_FACTOR
        BY <1>1, <1>2, <2>8, <4>1, Reorder
      <4>. QED
        BY <1>2, <2>8, <4>1, <4>2, <4>3, TimesNat DEF f
    <3>3. CASE diff = 1
      <4>1. Claim(pool, d) = a * pool.P /\ Claim(pool', d) = a * pool'.P
        BY <2>4, <2>9, <3>3
      <4>. QED
        BY <2>8, <3>1, <4>1 DEF f
    <3>4. CASE ~(diff = 0 \/ diff = 1)
      <4>1. Claim(pool', d) = 0
        BY <2>4, <2>9, <3>4
      <4>. QED
        BY <1>2, <1>3, <4>1 DEF f
    <3>. QED
      BY <3>2, <3>3, <3>4
  <2>10. CASE pool'.scale = pool.scale + 1 /\ pool'.P * DECIMAL_PRECISION <= g * SCALE_FACTOR
    <3>1. new = diff + 1
      BY <1>2, <2>1, <2>10
    <3>2. CASE diff = 0
      <4>1. /\ Claim(pool, d) = (a * pool.P) * SCALE_FACTOR
            /\ Claim(pool', d) = a * pool'.P
        BY <2>4, <3>1, <3>2
      <4>. HIDE DEF g
      <4>2. a * (pool'.P * DECIMAL_PRECISION) <= a * (g * SCALE_FACTOR)
        BY <1>2, <2>2, <2>6, <2>8, <2>10, TimesLeq, TimesNat
      <4>3. a * (g * SCALE_FACTOR) = (a * g) * SCALE_FACTOR
        BY <1>2, <2>2, <2>6, Reorder
      <4>4. f * Claim(pool, d) = (f * (a * pool.P)) * SCALE_FACTOR
        BY <1>1, <1>2, <2>8, <4>1, Reorder
      <4>. QED
        BY <2>6, <2>7, <2>8, <4>1, <4>2, <4>3, <4>4 DEF f
    <3>3. CASE diff # 0
      <4>1. Claim(pool', d) = 0
        BY <2>4, <2>5, <3>1, <3>3
      <4>. QED
        BY <1>2, <1>3, <4>1 DEF f
    <3>. QED
      BY <3>2, <3>3
  <2>. QED
    BY <1>1, <1>2, <2>3, <2>9, <2>10
<1>. QED
  BY <1>4, <1>5

-----------------------------------------------------------------------------
(* The steps.                                                              *)

\* What the error was for: the claims w that exceed the total of t take more of a loss than
\* the deposits do, and the others take what the last error left to take.
LEMMA LossKeepsClaims ==
    ASSUME NEW a \in Nat, NEW D \in Nat \ {0}, NEW w \in Nat, NEW w2 \in Nat, NEW t \in Nat,
           NEW debt \in Nat, debt <= t, NEW err \in Nat, NEW err2 \in Nat, NEW m \in Nat,
           err <= m, NEW l \in Nat, l <= D,
           l * t = debt * D - err + err2,
           D * w2 <= (D - l) * w,
           D * w + a * err <= a * (t * D + m)
    PROVE  D * w2 + a * err2 <= a * ((t - debt) * D + m)
<1>. DEFINE rest == (t - debt) * D
<1>1. /\ t - debt \in Nat /\ D - l \in Nat /\ t * D \in Nat /\ debt * D \in Nat /\ rest \in Nat
      /\ rest = t * D - debt * D /\ l * w \in Nat /\ D * w \in Nat /\ l * t \in Nat
      /\ (D - l) * w = D * w - l * w
  BY SMT
<1>. HIDE DEF rest
<1>2. CASE a * t <= w
  <2>1. l * (a * t) <= l * w /\ a * t \in Nat /\ l * (a * t) \in Nat
    BY <1>2, TimesNat, TimesLeq
  <2>2. l * (a * t) = a * (l * t)
    <3>1. (l * a) * t = l * (a * t) /\ (a * l) * t = a * (l * t) /\ l * a = a * l
      BY Reorder
    <3>. QED
      BY <3>1
  <2>. DEFINE lt == l * t
              td == t * D
              dd == debt * D
  <2>3. /\ lt = dd - err + err2 /\ rest = td - dd /\ lt \in Nat /\ td \in Nat /\ dd \in Nat
        /\ D * w + a * err <= a * (td + m) /\ l * (a * t) = a * lt
    BY <1>1, <2>2
  <2>. HIDE DEF lt, td, dd
  <2>4. a * (rest + m) = a * (td + m) - a * err - a * lt + a * err2
    <3>1. rest + m = (td + m) - err - lt + err2
      BY <1>1, <2>3
    <3>. DEFINE x == td + m
    <3>2. x \in Nat /\ rest + m \in Nat /\ rest + m = x - err - lt + err2
      BY <1>1, <2>3, <3>1
    <3>. HIDE DEF x
    <3>3. a * (x - err - lt + err2) = a * x - a * err - a * lt + a * err2
      BY <2>3, <3>2, SMT
    <3>. QED
      BY <3>2, <3>3 DEF x
  <2>5. /\ D * w2 \in Nat /\ a * err \in Nat /\ a * lt \in Nat /\ a * err2 \in Nat
        /\ a * (td + m) \in Nat
    BY <2>3, TimesNat
  <2>. DEFINE dw == D * w
              lw == l * w
              dw2 == D * w2
              full == a * (td + m)
              ae == a * err
              ae2 == a * err2
              al == a * lt
  <2>6. /\ dw2 <= dw - lw /\ dw + ae <= full /\ al <= lw
        /\ dw \in Nat /\ lw \in Nat /\ dw2 \in Nat /\ full \in Nat /\ ae \in Nat /\ ae2 \in Nat
        /\ al \in Nat
    BY <1>1, <2>1, <2>3, <2>5
  <2>7. a * (rest + m) = full - ae - al + ae2
    BY <2>4
  <2>. HIDE DEF dw, lw, dw2, full, ae, ae2, al
  <2>8. dw2 + ae2 <= full - ae - al + ae2
    BY <2>6
  <2>. QED
    BY <2>7, <2>8 DEF dw2, ae2, rest
<1>3. CASE ~(a * t <= w)
  <2>1. w <= a * t /\ a * t \in Nat
    BY <1>3, TimesNat
  <2>2. (D - l) * w <= (D - l) * (a * t) /\ (D - l) * w \in Nat /\ (D - l) * (a * t) \in Nat
    BY <1>1, <2>1, TimesNat, TimesLeq
  <2>3. (D - l) * (a * t) = a * ((D - l) * t) /\ (D - l) * t = t * D - l * t
    <3>1. D - l \in Nat
      BY <1>1
    <3>. DEFINE k == D - l
    <3>2. k \in Nat /\ D = k + l
      BY <3>1
    <3>. HIDE DEF k
    <3>3. (k * a) * t = k * (a * t) /\ (a * k) * t = a * (k * t) /\ k * a = a * k
      BY <3>2, Reorder
    <3>4. t * (k + l) = k * t + l * t
      BY <3>2, SMT
    <3>5. k * (a * t) = a * (k * t) /\ k * t = t * D - l * t
      BY <3>2, <3>3, <3>4, TimesNat
    <3>. QED
      BY <3>5 DEF k
  <2>. DEFINE left == (D - l) * t
  <2>4. left \in Nat /\ left + err2 = rest + err /\ left + err2 <= rest + m
    <3>1. left \in Nat
      BY <1>1, TimesNat
    <3>. QED
      BY <1>1, <2>3, <3>1
  <2>. HIDE DEF left
  <2>5. a * (left + err2) <= a * (rest + m) /\ a * (left + err2) = a * left + a * err2
    <3>1. left + err2 \in Nat /\ rest + m \in Nat
      BY <1>1, <2>4
    <3>2. a * (left + err2) = a * left + a * err2
      BY <2>4, SMT
    <3>. QED
      BY <2>4, <3>1, <3>2, TimesLeq
  <2>6. D * w2 <= a * left
    <3>1. D * w2 \in Nat
      BY TimesNat
    <3>. QED
      BY <2>2, <2>3, <3>1 DEF left
  <2>7. D * w2 \in Nat /\ a * left \in Nat /\ a * err2 \in Nat /\ a * (rest + m) \in Nat
    BY <1>1, <2>4, TimesNat
  <2>8. D * w2 + a * err2 <= a * (rest + m)
    BY <2>5, <2>6, <2>7
  <2>. QED
    BY <2>8 DEF rest
<1>. QED
  BY <1>2, <1>3

\* The smaller of two numbers.
LEMMA MinOfTwo ==
    ASSUME NEW a \in Nat, NEW b \in Nat
    PROVE  Min({a, b}) \in {a, b} /\ Min({a, b}) <= a /\ Min({a, b}) <= b
<1>1. \E x \in {a, b} : \A y \in {a, b} : x <= y
  <2>1. CASE a <= b
    BY <2>1
  <2>2. CASE b <= a
    BY <2>2
  <2>. QED
    BY <2>1, <2>2
<1>2. Min({a, b}) \in {a, b} /\ \A y \in {a, b} : Min({a, b}) <= y
  BY <1>1 DEF Min
<1>. QED
  BY <1>2

\* The issuance changes nothing that deposits depend on.
LEMMA IssuedKeeps ==
    ASSUME PoolInv
    PROVE  /\ DOMAIN Issued = DOMAIN pool
           /\ Issued.P = pool.P /\ Issued.S = pool.S /\ Issued.scale = pool.scale
           /\ Issued.epoch = pool.epoch /\ Issued.total = pool.total
           /\ Issued.FILError = pool.FILError /\ Issued.lossError = pool.lossError
BY DEF PoolInv, Issued

\* A deposit with a snapshot of the pool as it is: its claim is its value.
LEMMA FreshClaim ==
    ASSUME PoolInv, NEW value \in Nat, NEW tag
    PROVE  /\ IsDeposit(pool, NewDeposit(Issued, value, tag))
           /\ Claim(pool, NewDeposit(Issued, value, tag)) = Unit * value
<1>. DEFINE d == NewDeposit(Issued, value, tag)
            P == pool.P
            q == Common \div P
<1>1. /\ P \in 1 .. MaxP /\ pool.epoch \in Epochs /\ pool.scale \in 0 .. MaxScale
      /\ pool.S[pool.epoch][pool.scale] \in Nat
      /\ pool.epoch \in Nat /\ pool.scale \in Nat
  <2>1. /\ P \in 1 .. MaxP /\ pool.epoch \in Epochs /\ pool.scale \in 0 .. MaxScale
        /\ pool.S \in [Epochs -> [Scales -> Nat]]
    BY DEF PoolInv
  <2>2. pool.scale \in Scales /\ pool.scale \in Nat /\ pool.epoch \in Nat
    BY <2>1, PoolAssumption DEF Scales, Epochs
  <2>. QED
    BY <2>1, <2>2
<1>2. CASE value = 0
  <2>1. d.value = 0
    BY <1>2 DEF NewDeposit, NoDeposit
  <2>. QED
    BY <1>2, <2>1, ConstantTypes DEF IsDeposit, Claim
<1>3. CASE value # 0
  <2>1. d = [value |-> value, tag |-> tag, snap |-> Snapshot(Issued)]
    BY <1>3 DEF NewDeposit
  <2>2. /\ d.value = value /\ d.snap.P = P /\ d.snap.epoch = pool.epoch
        /\ d.snap.scale = pool.scale /\ d.snap.S = pool.S[pool.epoch][pool.scale]
    BY <2>1, IssuedKeeps DEF Snapshot
  <2>. HIDE DEF d
  <2>3. IsDeposit(pool, d)
    BY <1>1, <2>2 DEF IsDeposit
  <2>4. Claim(pool, d) = ((value * q) * P) * SCALE_FACTOR
    BY <1>1, <1>3, <2>2 DEF Claim, Share
  <2>5. q \in Nat /\ Common = P * q /\ P \in Nat /\ Common \in Nat /\ SCALE_FACTOR \in Nat
    BY <1>1, ConstantTypes
  <2>. HIDE DEF P, q
  <2>6. ((value * q) * P) * SCALE_FACTOR = (Common * SCALE_FACTOR) * value
    <3>1. (value * q) * P = value * (q * P) /\ q * P = P * q
      BY <2>5, Reorder
    <3>2. (value * Common) * SCALE_FACTOR = (value * SCALE_FACTOR) * Common
          /\ value * (Common * SCALE_FACTOR) = (value * Common) * SCALE_FACTOR
      BY <2>5, Reorder
    <3>3. Common * SCALE_FACTOR \in Nat
      BY <2>5, TimesNat
    <3>4. (Common * SCALE_FACTOR) * value = value * (Common * SCALE_FACTOR)
      BY <3>3, Reorder
    <3>. QED
      BY <2>5, <3>1, <3>2, <3>4
  <2>. QED
    BY <2>3, <2>4, <2>6 DEF d, Unit
<1>. QED
  BY <1>2, <1>3

ClaimOf == [u \in Users |-> Claim(pool, deposits[u])]

LEMMA ClaimTypes ==
    ASSUME PoolInv, DepositsInv
    PROVE  /\ ClaimOf \in [Users -> Nat] /\ Claims = Total(ClaimOf) /\ Claims \in Nat
           /\ \A u \in Users : Deposit(u) \in Nat /\ Unit * Deposit(u) <= Claim(pool, deposits[u])
<1>1. ASSUME NEW u \in Users
      PROVE  /\ Claim(pool, deposits[u]) \in Nat /\ Deposit(u) \in Nat
             /\ Unit * Deposit(u) <= Claim(pool, deposits[u])
  BY ClaimCovers DEF DepositsInv, Deposit
<1>2. ClaimOf \in [Users -> Nat]
  BY <1>1 DEF ClaimOf
<1>. QED
  BY <1>1, <1>2, TotalType, PoolAssumption DEF Claims, ClaimOf

\* What a step that leaves the product and the sums alone keeps of the deposits.
LEMMA SameProduct ==
    ASSUME NEW p, p.P = pool.P, p.scale = pool.scale, p.epoch = pool.epoch, p.S = pool.S
    PROVE  /\ \A d : Claim(p, d) = Claim(pool, d)
           /\ \A d : IsDeposit(p, d) <=> IsDeposit(pool, d)
<1>1. \A d : Claim(p, d) = Claim(pool, d)
  BY DEF Claim
<1>2. \A d : IsDeposit(p, d) <=> IsDeposit(pool, d)
  BY DEF IsDeposit
<1>. QED
  BY <1>1, <1>2

\* An operation of a depositor: the deposit is written down as what it has become, which
\* its claim covers, and the total changes by as much as the deposit.
LEMMA OperationKeeps ==
    ASSUME PoolProofInv, NEW u \in Users, NEW f, NEW added \in Int, Operation(u, f, added),
           Deposit(u) + added \in Nat, pool.total + added \in 0 .. MaxDeposits
    PROVE  PoolProofInv'
<1>. DEFINE value == Deposit(u) + added
            d == NewDeposit(Issued, value, f)
<1>1. PoolInv /\ DepositsInv /\ ClaimsInv
  BY DEF PoolProofInv
<1>2. /\ DOMAIN pool' = DOMAIN pool
      /\ pool'.P = pool.P /\ pool'.S = pool.S /\ pool'.scale = pool.scale
      /\ pool'.epoch = pool.epoch /\ pool'.FILError = pool.FILError
      /\ pool'.lossError = pool.lossError /\ pool'.total = pool.total + added
  <2>. DEFINE p == Issued
  <2>1. /\ DOMAIN p = DOMAIN pool /\ p.P = pool.P /\ p.S = pool.S /\ p.scale = pool.scale
        /\ p.epoch = pool.epoch /\ p.total = pool.total
        /\ p.FILError = pool.FILError /\ p.lossError = pool.lossError
    BY <1>1, IssuedKeeps
  <2>2. pool' = [p EXCEPT !.total = @ + added, !.FIL = @ - FILGain(p, u)]
    BY DEF Operation
  <2>. HIDE DEF p
  <2>. QED
    BY <1>1, <2>1, <2>2 DEF PoolInv
<1>3. deposits' = [deposits EXCEPT ![u] = d]
  BY DEF Operation
<1>4. PoolInv'
  BY <1>1, <1>2 DEF PoolInv
<1>5. IsDeposit(pool, d) /\ Claim(pool, d) = Unit * value /\ value \in Nat
  BY <1>1, FreshClaim
<1>. HIDE DEF d, value
<1>6. /\ \A x : Claim(pool', x) = Claim(pool, x)
      /\ \A x : IsDeposit(pool', x) <=> IsDeposit(pool, x)
  BY <1>2, SameProduct
<1>7. /\ DOMAIN deposits' = Users /\ deposits'[u] = d
      /\ \A y \in Users \ {u} : deposits'[y] = deposits[y]
  BY <1>1, <1>3 DEF DepositsInv
<1>8. DepositsInv'
  BY <1>1, <1>5, <1>6, <1>7 DEF DepositsInv
<1>. DEFINE new == [x \in Users |-> Claim(pool', deposits'[x])]
<1>9. /\ new \in [Users -> Nat] /\ Claims' = Total(new)
      /\ new[u] = Unit * value /\ \A y \in Users \ {u} : new[y] = ClaimOf[y]
  <2>1. ASSUME NEW x \in Users
        PROVE  new[x] = IF x = u THEN Unit * value ELSE ClaimOf[x]
    BY <1>5, <1>6, <1>7 DEF ClaimOf
  <2>2. Unit * value \in Nat
    BY <1>5, ConstantTypes, TimesNat
  <2>3. new \in [Users -> Nat]
    <3>1. \A x \in Users : new[x] \in Nat
      BY <1>1, <2>1, <2>2, ClaimTypes
    <3>. QED
      BY <3>1
  <2>. QED
    BY <2>1, <2>3 DEF Claims
<1>. HIDE DEF new
<1>10. /\ ClaimOf \in [Users -> Nat] /\ Claims = Total(ClaimOf) /\ Claims \in Nat
       /\ Deposit(u) \in Nat /\ Unit * Deposit(u) <= ClaimOf[u]
  BY <1>1, ClaimTypes DEF ClaimOf
<1>11. Claims' = (Claims - ClaimOf[u]) + new[u] /\ Claims' \in Nat
  BY <1>9, <1>10, TotalChange, TotalType, PoolAssumption
<1>12. ClaimsInv'
  <2>. DEFINE D == DECIMAL_PRECISION
              t == pool.total
              before == Unit * Deposit(u)
              more == Unit * added
              c == ClaimOf[u]
  <2>1. /\ D \in Nat \ {0} /\ Unit \in Nat /\ t \in Nat /\ MaxDeposits \in Nat
        /\ pool.lossError \in Nat /\ t + added \in Nat
    BY <1>1, ConstantTypes DEF PoolInv
  <2>2. new[u] = before + more /\ before \in Nat /\ more \in Int /\ before <= c /\ c \in Nat
    <3>1. Unit * (Deposit(u) + added) = Unit * Deposit(u) + Unit * added
      BY <1>10, <2>1, SMT
    <3>. QED
      BY <1>9, <1>10, <2>1, <3>1, TimesNat DEF value
  <2>. HIDE DEF before, more, c
  <2>3. Claims' <= Claims + more
    BY <1>10, <1>11, <2>2 DEF c
  <2>4. D * Claims' <= D * (Claims + more) /\ Claims + more \in Nat
    BY <1>10, <1>11, <2>1, <2>2, <2>3, TimesLeq
  <2>5. D * (Claims + more) = D * Claims + D * more
    BY <1>10, <2>1, <2>2, SMT
  <2>6. Unit * ((t + added) * D + MaxDeposits) = Unit * (t * D + MaxDeposits) + D * more
    <3>1. (t + added) * D = t * D + added * D /\ t * D \in Nat /\ added * D \in Int
      BY <2>1, SMT
    <3>2. Unit * ((t * D + MaxDeposits) + added * D)
            = Unit * (t * D + MaxDeposits) + Unit * (added * D)
      <4>. DEFINE x == t * D + MaxDeposits
                  y == added * D
      <4>1. x \in Nat /\ y \in Int
        BY <2>1, <3>1
      <4>. HIDE DEF x, y
      <4>2. Unit * (x + y) = Unit * x + Unit * y
        BY <2>1, <4>1, SMT
      <4>. QED
        BY <4>2 DEF x, y
    <3>3. Unit * (added * D) = D * (Unit * added)
      BY <2>1, SMT
    <3>4. (t + added) * D + MaxDeposits = (t * D + MaxDeposits) + added * D
      BY <2>1, <3>1
    <3>. QED
      BY <3>2, <3>3, <3>4 DEF more
  <2>7. D * Claims + Unit * pool.lossError <= Unit * (t * D + MaxDeposits)
    BY <1>1 DEF ClaimsInv
  <2>8. /\ D * Claims \in Nat /\ D * Claims' \in Nat /\ Unit * pool.lossError \in Nat
        /\ D * more \in Int /\ t * D + MaxDeposits \in Nat
        /\ Unit * (t * D + MaxDeposits) \in Nat
    <3>1. t * D + MaxDeposits \in Nat
      BY <2>1, TimesNat
    <3>2. D * more \in Int
      BY <2>1, <2>2, SMT
    <3>. QED
      BY <1>10, <1>11, <2>1, <3>1, <3>2, TimesNat
  <2>9. D * Claims' + Unit * pool.lossError <= Unit * ((t + added) * D + MaxDeposits)
    <3>. DEFINE e == Unit * pool.lossError
                full == Unit * (t * D + MaxDeposits)
                dc == D * Claims
                dc2 == D * Claims'
                dm == D * more
    <3>1. /\ dc2 <= dc + dm /\ dc + e <= full /\ dc \in Nat /\ dc2 \in Nat /\ e \in Nat
          /\ full \in Nat /\ dm \in Int
      BY <2>4, <2>5, <2>7, <2>8
    <3>2. Unit * ((t + added) * D + MaxDeposits) = full + dm
      BY <2>6
    <3>. HIDE DEF e, full, dc, dc2, dm
    <3>3. dc2 + e <= full + dm
      BY <3>1
    <3>. QED
      BY <3>2, <3>3 DEF e, dc2
  <2>. QED
    BY <1>2, <2>9 DEF ClaimsInv
<1>. QED
  BY <1>4, <1>8, <1>12 DEF PoolProofInv

\* A withdrawal takes no more than the deposit has become.
LEMMA WithdrawKeeps ==
    ASSUME PoolProofInv, NEW u \in Users, NEW amount \in Nat, withdrawFromSP(u, amount)
    PROVE  PoolProofInv'
<1>. DEFINE taken == Min({amount, Deposit(u)})
<1>1. Deposit(u) \in Nat
  BY ClaimTypes DEF PoolProofInv
<1>2. taken \in Nat /\ taken <= Deposit(u)
  BY <1>1, MinOfTwo
<1>3. Operation(u, deposits[u].tag, -taken)
  BY DEF withdrawFromSP
<1>4. -taken \in Int /\ Deposit(u) + (-taken) \in Nat
  BY <1>1, <1>2
<1>5. pool.total + (-taken) \in 0 .. MaxDeposits
  <2>1. Issued.total + (-taken) >= 0 /\ Issued.total = pool.total
    BY <1>3, IssuedKeeps DEF Operation, PoolProofInv
  <2>2. pool.total \in Nat /\ pool.total <= MaxDeposits /\ MaxDeposits \in Nat
    BY ConstantTypes DEF PoolProofInv, PoolInv
  <2>. QED
    BY <1>2, <2>1, <2>2
<1>. QED
  BY <1>3, <1>4, <1>5, OperationKeeps

LEMMA ProvideKeeps ==
    ASSUME PoolProofInv, NEW u \in Users, NEW amount \in Nat, NEW tag,
           provideToSP(u, amount, tag)
    PROVE  PoolProofInv'
<1>1. Deposit(u) \in Nat
  BY ClaimTypes DEF PoolProofInv
<1>2. PICK f : Operation(u, f, amount)
  BY DEF provideToSP
<1>3. pool.total + amount \in 0 .. MaxDeposits
  <2>1. pool.total \in Nat /\ MaxDeposits \in Nat
    BY ConstantTypes DEF PoolProofInv, PoolInv
  <2>. QED
    BY <2>1 DEF provideToSP
<1>. QED
  BY <1>1, <1>2, <1>3, OperationKeeps

LEMMA WithdrawGainKeeps ==
    ASSUME PoolProofInv, NEW u \in Users, withdrawFILGainToTrove(u)
    PROVE  PoolProofInv'
<1>1. Deposit(u) \in Nat
  BY ClaimTypes DEF PoolProofInv
<1>2. pool.total \in Nat /\ pool.total <= MaxDeposits /\ MaxDeposits \in Nat
  BY ConstantTypes DEF PoolProofInv, PoolInv
<1>. QED
  BY <1>1, <1>2, OperationKeeps DEF withdrawFILGainToTrove

-----------------------------------------------------------------------------
(* Offsets.                                                                *)

\* The loss per unit is rounded up, and the error is what that takes too much.
LEMMA LossRoundsUp ==
    ASSUME PoolInv, NEW debt \in 1 .. pool.total, debt * DECIMAL_PRECISION >= pool.lossError
    PROVE  LET loss == DebtTokenLoss(Issued, debt)
           IN /\ loss.perUnit \in Nat /\ loss.error \in 0 .. MaxDeposits
              /\ IF debt = pool.total
                   THEN loss.perUnit = DECIMAL_PRECISION /\ loss.error = 0
                 ELSE loss.perUnit * pool.total
                        = debt * DECIMAL_PRECISION - pool.lossError + loss.error
<1>. DEFINE loss == DebtTokenLoss(Issued, debt)
            t == pool.total
            n == debt * DECIMAL_PRECISION - pool.lossError
            q == n \div t
<1>1. /\ t \in Nat \ {0} /\ debt \in Nat /\ pool.lossError \in Nat /\ t <= MaxDeposits
      /\ MaxDeposits \in Nat /\ DECIMAL_PRECISION \in Nat
  BY ConstantTypes DEF PoolInv
<1>2. /\ Issued.total = t /\ Issued.lossError = pool.lossError
  BY IssuedKeeps
<1>3. CASE debt = t
  <2>1. loss = [perUnit |-> DECIMAL_PRECISION, error |-> 0]
    BY <1>2, <1>3 DEF DebtTokenLoss
  <2>. QED
    BY <1>1, <1>3, <2>1
<1>4. CASE debt # t
  <2>1. loss = [perUnit |-> q + 1, error |-> (q + 1) * t - n]
    BY <1>2, <1>4 DEF DebtTokenLoss
  <2>2. n \in Nat
    <3>1. debt * DECIMAL_PRECISION \in Nat
      BY <1>1, TimesNat
    <3>. QED
      BY <1>1, <3>1
  <2>3. q \in Nat /\ q * t <= n /\ n < (q + 1) * t
    <3>. HIDE DEF n
    <3>. QED
      BY <1>1, <2>2, FloorIs
  <2>. HIDE DEF q
  <2>4. (q + 1) * t = q * t + t /\ q * t \in Nat
    BY <1>1, <2>3, TimesNat, SMT
  <2>5. (q + 1) * t - n \in 0 .. MaxDeposits /\ (q + 1) * t = n + ((q + 1) * t - n)
    <3>. HIDE DEF n
    <3>. QED
      BY <1>1, <2>2, <2>3, <2>4
  <2>6. loss.perUnit = q + 1 /\ loss.error = (q + 1) * t - n
    BY <2>1
  <2>. HIDE DEF loss
  <2>. QED
    BY <1>4, <2>3, <2>5, <2>6 DEF n, loss
<1>. QED
  BY <1>3, <1>4

\* What an offset does to the pool.
LEMMA OffsetPool ==
    ASSUME PoolInv, NEW debt \in Offsets, NEW coll \in Colls, offset(debt, coll)
    PROVE  LET loss == DebtTokenLoss(Issued, debt)
               gain == FILPerUnit(Issued, coll)
               n == NewProduct(pool, loss.perUnit)
           IN /\ debt \in 1 .. pool.total /\ debt * DECIMAL_PRECISION >= pool.lossError
              /\ loss.perUnit <= DECIMAL_PRECISION
              /\ n.P > 0 /\ n.epoch <= MaxEpoch /\ n.scale <= MaxScale
              /\ DOMAIN pool' = DOMAIN pool
              /\ pool'.P = n.P /\ pool'.scale = n.scale /\ pool'.epoch = n.epoch
              /\ pool'.total = pool.total - debt /\ pool'.lossError = loss.error
              /\ pool'.FILError = gain.error
              /\ gain.perUnit \in Nat /\ gain.error \in Nat
              /\ pool'.S = MarginalFILGain(pool, gain.perUnit)
<1>. DEFINE p == Issued
            loss == DebtTokenLoss(p, debt)
            gain == FILPerUnit(p, coll)
            n == NewProduct(pool, loss.perUnit)
            t == pool.total
<1>1. /\ DOMAIN p = DOMAIN pool /\ p.P = pool.P /\ p.S = pool.S /\ p.scale = pool.scale
      /\ p.epoch = pool.epoch /\ p.total = t
      /\ p.FILError = pool.FILError /\ p.lossError = pool.lossError
  BY IssuedKeeps
<1>2. debt \in 1 .. t /\ t \in Nat \ {0}
  <2>1. t \in Nat
    BY ConstantTypes DEF PoolInv
  <2>2. t # 0
    BY DEF Offsets
  <2>3. PICK wanted \in Debts : debt = Min({wanted, t})
    BY <2>2 DEF Offsets
  <2>4. wanted \in Nat \ {0}
    BY PoolAssumption
  <2>5. debt \in {wanted, t} /\ debt <= t
    BY <2>1, <2>3, <2>4, MinOfTwo
  <2>. QED
    BY <2>1, <2>2, <2>4, <2>5
<1>3. NewProduct(p, loss.perUnit) = n
  BY <1>1 DEF NewProduct
<1>4. MarginalFILGain(p, gain.perUnit) = MarginalFILGain(pool, gain.perUnit)
  BY <1>1 DEF MarginalFILGain
<1>5. /\ debt * DECIMAL_PRECISION >= p.lossError /\ loss.perUnit <= DECIMAL_PRECISION
      /\ n.P > 0 /\ n.epoch <= MaxEpoch /\ n.scale <= MaxScale
      /\ pool' = [p EXCEPT !.P = n.P, !.scale = n.scale, !.epoch = n.epoch,
                           !.S = MarginalFILGain(pool, gain.perUnit),
                           !.FILError = gain.error, !.lossError = loss.error,
                           !.total = @ - debt, !.FIL = @ + coll]
  BY <1>3, <1>4 DEF offset
<1>6. gain.perUnit \in Nat /\ gain.error \in Nat
  <2>. DEFINE m == coll * DECIMAL_PRECISION + pool.FILError
              q == m \div t
  <2>1. gain = [perUnit |-> q, error |-> m - q * t]
    BY <1>1 DEF FILPerUnit
  <2>2. m \in Nat
    <3>1. coll \in Nat /\ DECIMAL_PRECISION \in Nat /\ pool.FILError \in Nat
      BY ConstantTypes, PoolAssumption DEF PoolInv
    <3>2. coll * DECIMAL_PRECISION \in Nat
      BY <3>1, TimesNat
    <3>. QED
      BY <3>1, <3>2
  <2>3. gain.perUnit = q /\ gain.error = m - q * t
    BY <2>1
  <2>. HIDE DEF m, gain
  <2>4. q \in Nat /\ q * t <= m
    BY <1>2, <2>2, FloorIs
  <2>5. q * t \in Nat
    BY <1>2, <2>4, TimesNat
  <2>. HIDE DEF q
  <2>. QED
    BY <2>2, <2>3, <2>4, <2>5
<1>. HIDE DEF p, loss, gain, n
<1>7. /\ DOMAIN pool' = DOMAIN pool
      /\ pool'.P = n.P /\ pool'.scale = n.scale /\ pool'.epoch = n.epoch
      /\ pool'.total = t - debt /\ pool'.lossError = loss.error
      /\ pool'.FILError = gain.error /\ pool'.S = MarginalFILGain(pool, gain.perUnit)
  BY <1>1, <1>5 DEF PoolInv
<1>. QED
  BY <1>1, <1>2, <1>5, <1>6, <1>7 DEF p, loss, gain, n

\* The sums of collateral only grow, and only at the pool's own epoch and scale.
LEMMA GainGrows ==
    ASSUME PoolInv, NEW gain \in Nat
    PROVE  LET S == MarginalFILGain(pool, gain)
           IN /\ S \in [Epochs -> [Scales -> Nat]]
              /\ \A e \in Epochs, s \in Scales : pool.S[e][s] <= S[e][s]
<1>. DEFINE S == MarginalFILGain(pool, gain)
            more == gain * pool.P
<1>1. /\ pool.S \in [Epochs -> [Scales -> Nat]] /\ pool.epoch \in Epochs
      /\ pool.scale \in Scales
  BY ConstantTypes DEF PoolInv, Scales
<1>2. more \in Nat
  BY ConstantTypes, TimesNat DEF PoolInv
<1>3. S = [pool.S EXCEPT ![pool.epoch][pool.scale] = @ + more]
  BY DEF MarginalFILGain
<1>. HIDE DEF S, more
<1>4. ASSUME NEW e \in Epochs, NEW s \in Scales
      PROVE  pool.S[e][s] <= S[e][s] /\ S[e][s] \in Nat
  <2>1. pool.S[e][s] \in Nat
    BY <1>1
  <2>2. S[e][s] = IF e = pool.epoch /\ s = pool.scale THEN pool.S[e][s] + more
                  ELSE pool.S[e][s]
    BY <1>1, <1>3
  <2>. QED
    BY <1>2, <2>1, <2>2
<1>5. S \in [Epochs -> [Scales -> Nat]]
  <2>1. S = [e \in Epochs |-> IF e = pool.epoch
                              THEN [pool.S[e] EXCEPT ![pool.scale] = @ + more] ELSE pool.S[e]]
    BY <1>1, <1>3
  <2>2. [pool.S[pool.epoch] EXCEPT ![pool.scale] = @ + more] \in [Scales -> Nat]
    BY <1>1, <1>2
  <2>. QED
    BY <1>1, <2>1, <2>2
<1>. QED
  BY <1>4, <1>5 DEF S

\* A loss takes from all claims in proportion, so that they shrink at least by it.
LEMMA ClaimsShrink ==
    ASSUME PoolInv, DepositsInv, NEW l \in Nat, l <= DECIMAL_PRECISION,
           pool'.P = NewProduct(pool, l).P, pool'.scale = NewProduct(pool, l).scale,
           pool'.epoch = NewProduct(pool, l).epoch, deposits' = deposits
    PROVE  /\ Claims' \in Nat
           /\ DECIMAL_PRECISION * Claims' <= (DECIMAL_PRECISION - l) * Claims
<1>. DEFINE D == DECIMAL_PRECISION
            f == D - l
            old == ClaimOf
            new == [u \in Users |-> Claim(pool', deposits[u])]
<1>1. D \in Nat /\ f \in Nat /\ IsFiniteSet(Users)
  BY ConstantTypes, PoolAssumption
<1>2. old \in [Users -> Nat] /\ Claims = Total(old)
  BY ClaimTypes
<1>3. ASSUME NEW u \in Users
      PROVE  new[u] \in Nat /\ D * new[u] <= f * old[u]
  BY ClaimShrinks DEF DepositsInv, ClaimOf
<1>4. Claims' = Total(new)
  BY DEF Claims
<1>. HIDE DEF old
<1>5. new \in [Users -> Nat]
  BY <1>3
<1>. HIDE DEF new, f
<1>. DEFINE left  == [u \in Users |-> D * new[u]]
            right == [u \in Users |-> f * old[u]]
<1>6. left \in [Users -> Nat] /\ right \in [Users -> Nat]
  BY <1>1, <1>2, <1>5, TimesNat
<1>7. Total(left) = D * Total(new) /\ Total(right) = f * Total(old)
  BY <1>1, <1>2, <1>5, TotalTimes
<1>8. Total(left) <= Total(right)
  <2>1. \A u \in Users : left[u] <= right[u]
    BY <1>3
  <2>. HIDE DEF left, right
  <2>. QED
    BY <1>1, <1>6, <2>1, TotalLeq
<1>9. Total(new) \in Nat
  BY <1>1, <1>5, TotalType
<1>. QED
  BY <1>2, <1>4, <1>7, <1>8, <1>9 DEF f

\* The snapshot of a deposit stays one of a pool that was.
LEMMA DepositStays ==
    ASSUME PoolInv, NEW d, IsDeposit(pool, d), NEW p,
           p.epoch \in Epochs, p.scale \in 0 .. MaxScale,
           \/ p.epoch = pool.epoch + 1
           \/ p.epoch = pool.epoch /\ p.scale \in {pool.scale, pool.scale + 1},
           \A e \in Epochs, s \in Scales : pool.S[e][s] <= p.S[e][s] /\ p.S[e][s] \in Nat
    PROVE  IsDeposit(p, d)
<1>1. CASE d.value = 0
  BY <1>1 DEF IsDeposit
<1>2. CASE d.value # 0
  <2>1. /\ d.value \in Nat /\ d.snap.P \in 1 .. MaxP
        /\ d.snap.epoch \in Epochs /\ d.snap.epoch <= pool.epoch
        /\ d.snap.scale \in 0 .. MaxScale
        /\ (d.snap.epoch = pool.epoch => d.snap.scale <= pool.scale)
        /\ d.snap.S \in Nat /\ d.snap.S <= pool.S[d.snap.epoch][d.snap.scale]
    BY <1>2 DEF IsDeposit
  <2>2. /\ pool.epoch \in Nat /\ pool.scale \in Nat /\ p.epoch \in Nat /\ p.scale \in Nat
        /\ d.snap.epoch \in Nat /\ d.snap.scale \in Nat
    <3>1. pool.epoch \in 0 .. MaxEpoch /\ pool.scale \in 0 .. MaxScale
      BY DEF PoolInv, Epochs
    <3>2. p.epoch \in 0 .. MaxEpoch /\ d.snap.epoch \in 0 .. MaxEpoch
      BY <2>1 DEF Epochs
    <3>. QED
      BY <2>1, <3>1, <3>2, ConstantTypes
  <2>3. d.snap.epoch <= p.epoch /\ (d.snap.epoch = p.epoch => d.snap.scale <= p.scale)
    BY <2>1, <2>2
  <2>4. d.snap.S <= p.S[d.snap.epoch][d.snap.scale]
    <3>1. d.snap.scale \in Scales
      BY <2>1, ConstantTypes DEF Scales
    <3>2. /\ pool.S[d.snap.epoch][d.snap.scale] \in Nat
          /\ p.S[d.snap.epoch][d.snap.scale] \in Nat
          /\ pool.S[d.snap.epoch][d.snap.scale] <= p.S[d.snap.epoch][d.snap.scale]
      BY <2>1, <3>1 DEF PoolInv
    <3>. QED
      BY <2>1, <3>2
  <2>. QED
    BY <2>1, <2>3, <2>4 DEF IsDeposit
<1>. QED
  BY <1>1, <1>2

LEMMA OffsetKeeps ==
    ASSUME PoolProofInv, NEW debt \in Offsets, NEW coll \in Colls, offset(debt, coll)
    PROVE  PoolProofInv'
<1>. DEFINE loss == DebtTokenLoss(Issued, debt)
            gain == FILPerUnit(Issued, coll)
            n == NewProduct(pool, loss.perUnit)
            D == DECIMAL_PRECISION
            t == pool.total
<1>1. PoolInv /\ DepositsInv /\ ClaimsInv
  BY DEF PoolProofInv
<1>2. deposits' = deposits
  BY DEF offset
<1>3. PICK l \in Nat : /\ l = loss.perUnit /\ l <= D
                       /\ debt \in 1 .. t /\ debt * D >= pool.lossError
                       /\ loss.error \in 0 .. MaxDeposits
                       /\ IF debt = t THEN l = D /\ loss.error = 0
                          ELSE l * t = debt * D - pool.lossError + loss.error
  BY <1>1, OffsetPool, LossRoundsUp
<1>4. PICK g \in Nat : /\ pool'.S = MarginalFILGain(pool, g) /\ pool'.FILError \in Nat
  BY <1>1, OffsetPool
<1>5. /\ DOMAIN pool' = DOMAIN pool
      /\ pool'.P = NewProduct(pool, l).P /\ pool'.scale = NewProduct(pool, l).scale
      /\ pool'.epoch = NewProduct(pool, l).epoch
      /\ pool'.P > 0 /\ pool'.epoch <= MaxEpoch /\ pool'.scale <= MaxScale
      /\ pool'.total = t - debt /\ pool'.lossError = loss.error
  BY <1>1, <1>3, OffsetPool
<1>. HIDE DEF loss, gain, n
<1>6. /\ pool'.P \in 1 .. MaxP /\ pool'.scale \in 0 .. MaxScale /\ pool'.epoch \in Epochs
      /\ \/ pool'.epoch = pool.epoch + 1
         \/ pool'.epoch = pool.epoch /\ pool'.scale \in {pool.scale, pool.scale + 1}
  <2>1. /\ pool'.P \in 0 .. MaxP /\ pool'.scale \in Nat /\ pool'.epoch \in Nat
        /\ \/ pool'.epoch = pool.epoch + 1
           \/ pool'.epoch = pool.epoch /\ pool'.scale \in {pool.scale, pool.scale + 1}
    BY <1>1, <1>3, <1>5, ProductBounds
  <2>. QED
    BY <1>5, <2>1, ConstantTypes DEF Epochs
<1>7. PoolInv'
  <2>1. pool'.S \in [Epochs -> [Scales -> Nat]]
    BY <1>1, <1>4, GainGrows
  <2>2. pool'.total \in 0 .. MaxDeposits
    <3>1. t \in Nat /\ t <= MaxDeposits /\ MaxDeposits \in Nat
      BY <1>1, ConstantTypes DEF PoolInv
    <3>. QED
      BY <1>3, <1>5, <3>1
  <2>. QED
    BY <1>1, <1>3, <1>4, <1>5, <1>6, <2>1, <2>2 DEF PoolInv
<1>8. DepositsInv'
  <2>1. ASSUME NEW u \in Users
        PROVE  IsDeposit(pool', deposits[u])
    <3>1. IsDeposit(pool, deposits[u])
      BY <1>1 DEF DepositsInv
    <3>2. \A e \in Epochs, s \in Scales : pool.S[e][s] <= pool'.S[e][s] /\ pool'.S[e][s] \in Nat
      BY <1>1, <1>4, GainGrows
    <3>. QED
      BY <1>1, <1>6, <3>1, <3>2, DepositStays
  <2>. QED
    BY <1>1, <1>2, <2>1 DEF DepositsInv
<1>9. ClaimsInv'
  <2>1. /\ D \in Nat \ {0} /\ Unit \in Nat /\ t \in Nat /\ debt \in Nat /\ debt <= t
        /\ pool.lossError \in Nat /\ pool.lossError <= MaxDeposits /\ MaxDeposits \in Nat
        /\ loss.error \in Nat
    BY <1>1, <1>3, ConstantTypes DEF PoolInv
  <2>2. Claims \in Nat /\ Claims' \in Nat /\ D * Claims' <= (D - l) * Claims
    BY <1>1, <1>2, <1>3, <1>5, ClaimTypes, ClaimsShrink
  <2>3. D * Claims + Unit * pool.lossError <= Unit * (t * D + MaxDeposits)
    BY <1>1 DEF ClaimsInv
  <2>4. D * Claims' + Unit * loss.error <= Unit * ((t - debt) * D + MaxDeposits)
    <3>1. CASE debt = t
      <4>1. loss.error = 0 /\ t - debt = 0 /\ D - l = 0
        BY <1>3, <2>1, <3>1
      <4>2. D * Claims' <= 0
        BY <2>2, <4>1
      <4>3. Unit * MaxDeposits \in Nat /\ D * Claims' \in Nat
        BY <2>1, <2>2, TimesNat
      <4>4. Unit * loss.error = 0 /\ (t - debt) * D + MaxDeposits = MaxDeposits
        BY <2>1, <4>1
      <4>. QED
        BY <4>2, <4>3, <4>4
    <3>2. CASE debt # t
      <4>1. l * t = debt * D - pool.lossError + loss.error
        BY <1>3, <3>2
      <4>. HIDE DEF D, t
      <4>. QED
        BY <1>3, <2>1, <2>2, <2>3, <4>1, LossKeepsClaims
    <3>. QED
      BY <3>1, <3>2
  <2>. QED
    BY <1>5, <2>4 DEF ClaimsInv
<1>. QED
  BY <1>7, <1>8, <1>9 DEF PoolProofInv

-----------------------------------------------------------------------------
(* The invariant holds.                                                    *)

LEMMA InitPool == Init => PoolProofInv
<1>. SUFFICES ASSUME Init PROVE PoolProofInv
  OBVIOUS
<1>1. PoolInv
  <2>1. 0 \in Epochs /\ 0 \in Scales
    BY ConstantTypes DEF Epochs, Scales
  <2>2. DECIMAL_PRECISION \in 1 .. MaxP
    <3>1. SCALE_FACTOR * SCALE_FACTOR \in Nat
      BY ConstantTypes, TimesNat
    <3>. QED
      BY <3>1, ConstantTypes DEF MaxP
  <2>. QED
    BY <2>1, <2>2, ConstantTypes DEF PoolInv, Init
<1>2. \A u \in Users : deposits[u].value = 0
  BY DEF Init, NoDeposit
<1>3. DepositsInv
  BY <1>2 DEF DepositsInv, IsDeposit, Init
<1>4. Claims = 0
  <2>1. \A u \in Users : ClaimOf[u] = 0
    BY <1>2 DEF ClaimOf, Claim
  <2>. QED
    BY <1>1, <1>3, <2>1, ClaimTypes, TotalZero, PoolAssumption
<1>5. ClaimsInv
  <2>1. pool.lossError = 0 /\ pool.total = 0
    BY DEF Init
  <2>2. Unit * MaxDeposits \in Nat
    BY ConstantTypes, TimesNat
  <2>. QED
    BY <1>4, <2>1, <2>2, ConstantTypes DEF ClaimsInv
<1>. QED
  BY <1>1, <1>3, <1>5 DEF PoolProofInv

LEMMA NextPool == PoolProofInv /\ [Next]_vars => PoolProofInv'
<1>. SUFFICES ASSUME PoolProofInv, [Next]_vars PROVE PoolProofInv'
  OBVIOUS
<1>1. ASSUME NEW u \in Users, NEW amount \in Provided, NEW tag \in Tags,
             provideToSP(u, amount, tag)
      PROVE  PoolProofInv'
  BY <1>1, ProvideKeeps, PoolAssumption
<1>2. ASSUME NEW u \in Users, NEW amount \in Withdrawn, withdrawFromSP(u, amount)
      PROVE  PoolProofInv'
  BY <1>2, WithdrawKeeps, PoolAssumption
<1>3. ASSUME NEW u \in Users, withdrawFILGainToTrove(u)
      PROVE  PoolProofInv'
  BY <1>3, WithdrawGainKeeps
<1>4. ASSUME NEW debt \in Offsets, NEW coll \in Colls, offset(debt, coll)
      PROVE  PoolProofInv'
  BY <1>4, OffsetKeeps
<1>5. ASSUME UNCHANGED <<pool, deposits>>
      PROVE  PoolProofInv'
  BY <1>5 DEF PoolProofInv, PoolInv, DepositsInv, ClaimsInv, Claims
<1>6. ASSUME \/ \E f \in Users, rate \in KickbackRates : registerFrontEnd(f, rate)
             \/ updateProtocolTokenSupplyCap
             \/ Supply
             \/ Minute
             \/ UNCHANGED vars
      PROVE  UNCHANGED <<pool, deposits>>
  BY <1>6 DEF registerFrontEnd, updateProtocolTokenSupplyCap, Supply, Minute, vars
<1>. QED
  BY <1>1, <1>2, <1>3, <1>4, <1>5, <1>6 DEF Next

\* The deposits can be withdrawn but for less than the precision of P, however losses,
\* changes of scale and epoch, deposits and withdrawals follow each other
\* (StabilityPool.sol:588).
THEOREM DepositsAreNearlyCovered == Spec => []DepositsNearlyCovered
<1>1. Spec => []PoolProofInv
  BY InitPool, NextPool, PTL DEF Spec
<1>2. ASSUME PoolProofInv
      PROVE  DepositsNearlyCovered
  <2>. DEFINE D == DECIMAL_PRECISION
              values == [u \in Users |-> Deposit(u)]
              sum == Total(values)
              inUnits == [u \in Users |-> Unit * values[u]]
              t == pool.total
  <2>1. PoolInv /\ DepositsInv /\ ClaimsInv
    BY <1>2 DEF PoolProofInv
  <2>2. /\ ClaimOf \in [Users -> Nat] /\ Claims = Total(ClaimOf) /\ Claims \in Nat
        /\ \A u \in Users : Deposit(u) \in Nat /\ Unit * Deposit(u) <= ClaimOf[u]
    BY <2>1, ClaimTypes DEF ClaimOf
  <2>3. /\ D \in Nat \ {0} /\ Unit \in Nat \ {0} /\ t \in Nat /\ MaxDeposits \in Nat
        /\ pool.lossError \in Nat /\ IsFiniteSet(Users)
    BY <2>1, ConstantTypes, PoolAssumption DEF PoolInv
  <2>4. values \in [Users -> Nat] /\ inUnits \in [Users -> Nat]
    BY <2>2, <2>3, TimesNat
  <2>5. sum \in Nat /\ Total(inUnits) = Unit * sum /\ Total(inUnits) <= Claims
    <3>1. \A u \in Users : inUnits[u] <= ClaimOf[u]
      BY <2>2
    <3>2. Total(inUnits) <= Total(ClaimOf)
      <4>. HIDE DEF inUnits
      <4>. QED
        BY <2>2, <2>3, <2>4, <3>1, TotalLeq
    <3>. HIDE DEF values
    <3>. QED
      BY <2>2, <2>3, <2>4, <3>2, TotalType, TotalTimes
  <2>. HIDE DEF values, inUnits, sum
  <2>6. D * Claims + Unit * pool.lossError <= Unit * (t * D + MaxDeposits)
    BY <2>1 DEF ClaimsInv
  <2>7. Unit * sum \in Nat /\ D * (Unit * sum) <= D * Claims /\ D * (Unit * sum) = Unit * (sum * D)
    <3>1. Unit * sum \in Nat
      BY <2>3, <2>5, TimesNat
    <3>2. Unit * sum <= Claims
      BY <2>5
    <3>3. D * (Unit * sum) = (Unit * sum) * D /\ (Unit * sum) * D = Unit * (sum * D)
      BY <2>3, <2>5, <3>1, Reorder
    <3>. QED
      BY <2>2, <2>3, <3>1, <3>2, <3>3, TimesLeq
  <2>8. /\ Unit * pool.lossError \in Nat /\ D * Claims \in Nat /\ sum * D \in Nat
        /\ t * D + MaxDeposits \in Nat /\ D * (Unit * sum) \in Nat
        /\ Unit * (t * D + MaxDeposits) \in Nat
    BY <2>2, <2>3, <2>5, <2>7, TimesNat
  <2>9. Unit * (sum * D) <= Unit * (t * D + MaxDeposits)
    BY <2>6, <2>7, <2>8
  <2>10. sum * D <= t * D + MaxDeposits
    <3>. DEFINE x == t * D + MaxDeposits
                y == sum * D
    <3>1. x \in Nat /\ y \in Nat /\ Unit * y <= Unit * x
      BY <2>8, <2>9
    <3>. HIDE DEF x, y
    <3>2. y <= x
      BY <2>3, <3>1, CancelLeq
    <3>. QED
      BY <3>2 DEF x, y
  <2>11. (sum - t) * D = sum * D - t * D /\ t * D \in Nat
    BY <2>3, <2>5, TimesNat, SMT
  <2>12. (sum - t) * D <= MaxDeposits
    BY <2>3, <2>8, <2>10, <2>11
  <2>. QED
    BY <2>12 DEF DepositsNearlyCovered, SumOfDeposits, sum, values
<1>. QED
  BY <1>1, <1>2, PTL

-----------------------------------------------------------------------------
(* What the steps of others do to a deposit and its gain.                  *)

LEMMA FloorMonotone ==
    ASSUME NEW n \in Nat, NEW m \in Nat, NEW d \in Nat \ {0}, n <= m
    PROVE  n \div d \in Nat /\ n \div d <= m \div d
<1>1. n \div d \in Nat /\ (n \div d) * d <= n
  BY FloorIs
<1>2. (n \div d) * d \in Nat
  BY <1>1, TimesNat
<1>. DEFINE x == n \div d
<1>3. x \in Nat /\ x * d <= m
  BY <1>1, <1>2
<1>. HIDE DEF x
<1>4. x <= m \div d
  BY <1>3, FloorIs
<1>. QED
  BY <1>1, <1>4 DEF x

\* A floor taken at a scale of k times as much.
LEMMA FloorScaled ==
    ASSUME NEW n \in Nat, NEW m \in Nat, NEW d \in Nat \ {0}, NEW k \in Nat \ {0}, m <= n * k
    PROVE  (m \div d) \div k \in Nat /\ (m \div d) \div k <= n \div d
<1>. DEFINE x == m \div d
            y == x \div k
<1>1. x \in Nat /\ x * d <= m
  BY FloorIs
<1>. HIDE DEF x
<1>2. y \in Nat /\ y * k <= x
  BY <1>1, FloorIs
<1>. HIDE DEF y
<1>3. (y * k) * d <= x * d /\ (y * k) * d = (y * d) * k
  BY <1>1, <1>2, TimesLeq, Reorder, TimesNat
<1>4. y * d \in Nat /\ (y * d) * k \in Nat /\ x * d \in Nat /\ n * k \in Nat
  BY <1>1, <1>2, TimesNat
<1>5. k * (y * d) <= k * n
  <2>1. k * (y * d) = (y * d) * k /\ k * n = n * k
    BY <1>4, Reorder
  <2>. QED
    BY <1>1, <1>3, <1>4, <2>1
<1>6. y * d <= n
  <2>. DEFINE z == y * d
  <2>1. z \in Nat /\ k * z <= k * n
    BY <1>4, <1>5
  <2>. HIDE DEF z
  <2>2. z <= n
    BY <2>1, CancelLeq
  <2>. QED
    BY <2>2 DEF z
<1>7. y <= n \div d
  BY <1>2, <1>6, FloorIs
<1>. QED
  BY <1>2, <1>7 DEF x, y

\* With the sums of collateral, what a deposit earned from them can only grow.
LEMMA EarnedGrows ==
    ASSUME PoolInv, NEW d, IsDeposit(pool, d), NEW S \in [Epochs -> [Scales -> Nat]],
           \A e \in Epochs, s \in Scales : pool.S[e][s] <= S[e][s]
    PROVE  Earned(pool.S, d.value, d.snap, d.snap.S) <= Earned(S, d.value, d.snap, d.snap.S)
<1>1. CASE d.value = 0
  BY <1>1 DEF Earned
<1>2. CASE d.value # 0
  <2>. DEFINE e == d.snap.epoch
              k == d.snap.scale
              first  == pool.S[e][k] - d.snap.S
              first2 == S[e][k] - d.snap.S
              second  == pool.S[e][k + 1] \div SCALE_FACTOR
              second2 == S[e][k + 1] \div SCALE_FACTOR
  <2>1. /\ d.value \in Nat /\ d.snap.P \in Nat \ {0} /\ d.snap.S \in Nat
        /\ e \in Epochs /\ k \in Scales /\ k + 1 \in Scales
        /\ d.snap.S <= pool.S[e][k]
    <3>1. /\ d.value \in Nat /\ d.snap.P \in 1 .. MaxP /\ d.snap.S \in Nat
          /\ e \in Epochs /\ k \in 0 .. MaxScale /\ d.snap.S <= pool.S[e][k]
      BY <1>2 DEF IsDeposit
    <3>. QED
      BY <3>1, ConstantTypes DEF Scales
  <2>2. /\ pool.S[e][k] \in Nat /\ S[e][k] \in Nat /\ pool.S[e][k] <= S[e][k]
        /\ pool.S[e][k + 1] \in Nat /\ S[e][k + 1] \in Nat /\ pool.S[e][k + 1] <= S[e][k + 1]
    BY <2>1 DEF PoolInv
  <2>3. first \in Nat /\ first2 \in Nat /\ first <= first2
    BY <2>1, <2>2
  <2>4. second \in Nat /\ second2 \in Nat /\ second <= second2
    <3>1. /\ second \in Nat /\ second <= second2
      BY <2>2, ConstantTypes, FloorMonotone
    <3>2. second2 \in Nat
      BY <2>2, ConstantTypes, FloorIs
    <3>. QED
      BY <3>1, <3>2
  <2>. HIDE DEF first, first2, second, second2, e, k
  <2>. DEFINE a == d.value * (first + second)
              b == d.value * (first2 + second2)
  <2>5. a \in Nat /\ b \in Nat /\ a <= b
    <3>1. first + second \in Nat /\ first2 + second2 \in Nat
          /\ first + second <= first2 + second2
      BY <2>3, <2>4
    <3>. QED
      BY <2>1, <3>1, TimesNat, TimesLeq
  <2>6. /\ Earned(pool.S, d.value, d.snap, d.snap.S) = (a \div d.snap.P) \div DECIMAL_PRECISION
        /\ Earned(S, d.value, d.snap, d.snap.S) = (b \div d.snap.P) \div DECIMAL_PRECISION
    BY <1>2 DEF Earned, first, first2, second, second2, e, k
  <2>. HIDE DEF a, b
  <2>. DEFINE x == a \div d.snap.P
              y == b \div d.snap.P
  <2>7. x \in Nat /\ x <= y /\ y \in Nat
    BY <2>1, <2>5, FloorMonotone, FloorIs
  <2>. HIDE DEF x, y
  <2>8. x \div DECIMAL_PRECISION <= y \div DECIMAL_PRECISION
    BY <2>7, ConstantTypes, FloorMonotone
  <2>. QED
    BY <2>6, <2>8 DEF x, y
<1>. QED
  BY <1>1, <1>2

\* A loss, at any scale, leaves no more of a deposit.
LEMMA LossShrinks ==
    ASSUME PoolInv, NEW d, IsDeposit(pool, d), NEW l \in Nat, l <= DECIMAL_PRECISION,
           NEW p, p.P = NewProduct(pool, l).P, p.scale = NewProduct(pool, l).scale,
           p.epoch = NewProduct(pool, l).epoch
    PROVE  Compounded(p, d.value, d.snap) <= Compounded(pool, d.value, d.snap)
<1>. DEFINE D == DECIMAL_PRECISION
            f == D - l
            v == d.value
            s == d.snap.P
            old == Compounded(pool, v, d.snap)
<1>1. /\ p.P \in Nat /\ p.scale \in Nat /\ p.epoch \in Nat /\ f \in Nat /\ f <= D
      /\ \/ p.epoch = pool.epoch + 1
         \/ /\ p.epoch = pool.epoch /\ p.scale = pool.scale /\ p.P * D <= pool.P * f
         \/ /\ p.epoch = pool.epoch /\ p.scale = pool.scale + 1
            /\ p.P * D <= (pool.P * f) * SCALE_FACTOR
  BY ProductBounds, ConstantTypes
<1>2. /\ pool.P \in Nat /\ pool.scale \in Nat /\ pool.epoch \in Nat
      /\ D \in Nat \ {0} /\ SCALE_FACTOR \in Nat \ {0}
  BY ConstantTypes DEF PoolInv, Epochs
<1>3. old \in Nat
  BY ClaimCovers
<1>. HIDE DEF f
<1>4. CASE v = 0 \/ d.snap.epoch < p.epoch
  <2>1. Compounded(p, v, d.snap) = 0
    BY <1>4 DEF Compounded
  <2>. QED
    BY <1>3, <2>1
<1>5. CASE ~(v = 0 \/ d.snap.epoch < p.epoch)
  <2>1. /\ v \in Nat /\ s \in Nat \ {0} /\ d.snap.scale \in Nat /\ d.snap.epoch \in Nat
        /\ d.snap.epoch <= pool.epoch /\ (d.snap.epoch = pool.epoch => d.snap.scale <= pool.scale)
    BY <1>5, ConstantTypes DEF IsDeposit, Epochs
  <2>2. p.epoch = pool.epoch /\ ~(d.snap.epoch < pool.epoch) /\ d.snap.scale <= pool.scale
    BY <1>1, <1>2, <1>5, <2>1
  <2>. DEFINE diff == pool.scale - d.snap.scale
              diff2 == p.scale - d.snap.scale
              n  == v * pool.P
              n2 == v * p.P
              x  == n \div s
              x2 == n2 \div s
              left  == CASE diff = 0 -> x [] diff = 1 -> x \div SCALE_FACTOR [] OTHER -> 0
              left2 == CASE diff2 = 0 -> x2 [] diff2 = 1 -> x2 \div SCALE_FACTOR [] OTHER -> 0
              least == v \div SCALE_FACTOR
  <2>3. /\ old = IF left < least THEN 0 ELSE left
        /\ Compounded(p, v, d.snap) = IF left2 < least THEN 0 ELSE left2
    BY <1>5, <2>2 DEF Compounded
  <2>. HIDE DEF old
  <2>4. least \in Nat /\ diff \in Nat /\ diff2 \in Nat /\ n \in Nat /\ n2 \in Nat
    <3>1. least \in Nat
      BY <1>2, <2>1, FloorIs
    <3>2. n \in Nat /\ n2 \in Nat
      BY <1>1, <1>2, <2>1, TimesNat
    <3>3. diff \in Nat /\ diff2 \in Nat
      BY <1>1, <1>2, <2>1, <2>2
    <3>. QED
      BY <3>1, <3>2, <3>3
  <2>. HIDE DEF least
  <2>5. pool.P * f <= pool.P * D /\ pool.P * f \in Nat /\ pool.P * D \in Nat
    BY <1>1, <1>2, TimesLeq, TimesNat
  <2>. DEFINE g == pool.P * f
  <2>6. left \in Nat /\ left2 \in Nat /\ left2 <= left
    <3>1. x \in Nat /\ x2 \in Nat
      <4>. HIDE DEF n, n2
      <4>. QED
        BY <2>1, <2>4, FloorIs
    <3>2. x \div SCALE_FACTOR \in Nat /\ x2 \div SCALE_FACTOR \in Nat
      <4>. HIDE DEF x, x2
      <4>. QED
        BY <1>2, <3>1, FloorIs
    <3>3. left \in Nat /\ left2 \in Nat
      <4>. HIDE DEF x, x2
      <4>. QED
        BY <3>1, <3>2
    <3>4. CASE p.scale = pool.scale /\ p.P * D <= g
      <4>1. p.P <= pool.P
        <5>1. p.P * D \in Nat /\ p.P * D <= pool.P * D
          BY <1>1, <1>2, <2>5, <3>4, TimesNat
        <5>2. D * p.P <= D * pool.P
          BY <1>1, <1>2, <5>1, Reorder
        <5>. QED
          BY <1>1, <1>2, <5>2, CancelLeq
      <4>2. n2 <= n
        BY <1>1, <1>2, <2>1, <4>1, TimesLeq
      <4>3. x2 <= x
        <5>. HIDE DEF n, n2
        <5>. QED
          BY <2>1, <2>4, <4>2, FloorMonotone
      <4>4. x2 \div SCALE_FACTOR <= x \div SCALE_FACTOR
        <5>. HIDE DEF x, x2
        <5>. QED
          BY <1>2, <3>1, <4>3, FloorMonotone
      <4>5. diff2 = diff
        BY <3>4
      <4>. HIDE DEF x, x2, diff, diff2
      <4>. QED
        BY <3>1, <3>2, <3>3, <4>3, <4>4, <4>5
    <3>5. CASE p.scale = pool.scale + 1 /\ p.P * D <= g * SCALE_FACTOR
      <4>1. diff2 = diff + 1
        BY <1>2, <2>1, <3>5
      <4>2. CASE diff = 0
        <5>1. p.P <= pool.P * SCALE_FACTOR /\ pool.P * SCALE_FACTOR \in Nat
          <6>1. g * SCALE_FACTOR <= (pool.P * D) * SCALE_FACTOR
            BY <1>2, <2>5, TimesLeq
          <6>2. (pool.P * D) * SCALE_FACTOR = D * (pool.P * SCALE_FACTOR)
            <7>1. pool.P * SCALE_FACTOR \in Nat
              BY <1>2, TimesNat
            <7>2. (pool.P * D) * SCALE_FACTOR = (pool.P * SCALE_FACTOR) * D
              BY <1>2, Reorder
            <7>. QED
              BY <1>2, <7>1, <7>2, Reorder
          <6>3. p.P * D = D * p.P
            BY <1>1, <1>2, Reorder
          <6>4. /\ g * SCALE_FACTOR \in Nat /\ pool.P * SCALE_FACTOR \in Nat /\ D * p.P \in Nat
                /\ D * (pool.P * SCALE_FACTOR) \in Nat
            BY <1>1, <1>2, <2>5, TimesNat
          <6>5. D * p.P <= D * (pool.P * SCALE_FACTOR)
            BY <3>5, <6>1, <6>2, <6>3, <6>4
          <6>. DEFINE y == pool.P * SCALE_FACTOR
          <6>6. y \in Nat /\ D * p.P <= D * y
            BY <6>4, <6>5
          <6>. HIDE DEF y
          <6>7. p.P <= y
            BY <1>1, <1>2, <6>6, CancelLeq
          <6>. QED
            BY <6>4, <6>7 DEF y
        <5>2. n2 <= n * SCALE_FACTOR
          <6>1. v * p.P <= v * (pool.P * SCALE_FACTOR)
            BY <1>1, <2>1, <5>1, TimesLeq
          <6>2. v * (pool.P * SCALE_FACTOR) = (v * pool.P) * SCALE_FACTOR
            BY <1>2, <2>1, Reorder
          <6>. QED
            BY <6>1, <6>2
        <5>3. x2 \div SCALE_FACTOR <= x
          <6>. HIDE DEF n, n2
          <6>. QED
            BY <1>2, <2>1, <2>4, <5>2, FloorScaled
        <5>. HIDE DEF x, x2, diff, diff2
        <5>. QED
          BY <3>3, <4>1, <4>2, <5>3
      <4>3. CASE diff # 0
        <5>1. left2 = 0
          <6>. HIDE DEF x, x2, diff, diff2
          <6>. QED
            BY <2>4, <4>1, <4>3
        <5>. QED
          BY <3>3, <5>1
      <4>. QED
        BY <4>2, <4>3
    <3>. QED
      BY <1>1, <1>2, <2>2, <3>4, <3>5
  <2>. HIDE DEF left, left2
  <2>. QED
    BY <2>3, <2>4, <2>6 DEF old
<1>. QED
  BY <1>4, <1>5

\* A step that does not touch the deposit of user u.
OthersSafe(u) ==
    deposits'[u] = deposits[u] =>
        /\ Deposit(u)' <= Deposit(u)
        /\ FILGain(pool, u)' >= FILGain(pool, u)

LEMMA SameProductSafe ==
    ASSUME PoolProofInv, NEW u \in Users,
           pool'.P = pool.P, pool'.scale = pool.scale, pool'.epoch = pool.epoch,
           pool'.S = pool.S
    PROVE  OthersSafe(u)
<1>. SUFFICES ASSUME deposits'[u] = deposits[u]
     PROVE /\ Deposit(u)' <= Deposit(u)
           /\ FILGain(pool, u)' >= FILGain(pool, u)
  BY DEF OthersSafe
<1>1. IsDeposit(pool, deposits[u]) /\ PoolInv
  BY DEF PoolProofInv, DepositsInv
<1>2. Deposit(u)' = Deposit(u) /\ Deposit(u) \in Nat
  <2>1. Deposit(u)' = Deposit(u)
    BY DEF Deposit, Compounded
  <2>. QED
    BY <1>1, <2>1, ClaimCovers DEF Deposit
<1>3. FILGain(pool, u)' = FILGain(pool, u)
  BY DEF FILGain
<1>4. FILGain(pool, u) <= FILGain(pool, u)
  <2>1. pool.S \in [Epochs -> [Scales -> Nat]]
    BY <1>1 DEF PoolInv
  <2>2. \A e \in Epochs, s \in Scales : pool.S[e][s] <= pool.S[e][s]
    BY <2>1
  <2>. QED
    BY <1>1, <2>1, <2>2, EarnedGrows DEF FILGain
<1>. QED
  BY <1>2, <1>3, <1>4

LEMMA OperationProduct ==
    ASSUME PoolProofInv, NEW u, NEW f, NEW added, Operation(u, f, added)
    PROVE  /\ pool'.P = pool.P /\ pool'.scale = pool.scale /\ pool'.epoch = pool.epoch
           /\ pool'.S = pool.S
<1>. DEFINE p == Issued
<1>1. p.P = pool.P /\ p.S = pool.S /\ p.scale = pool.scale /\ p.epoch = pool.epoch
  BY IssuedKeeps DEF PoolProofInv
<1>2. pool' = [p EXCEPT !.total = @ + added, !.FIL = @ - FILGain(p, u)]
  BY DEF Operation
<1>. HIDE DEF p
<1>. QED
  BY <1>1, <1>2

LEMMA OffsetSafe ==
    ASSUME PoolProofInv, NEW u \in Users, NEW debt \in Offsets, NEW coll \in Colls,
           offset(debt, coll)
    PROVE  OthersSafe(u)
<1>1. IsDeposit(pool, deposits[u]) /\ PoolInv /\ deposits' = deposits
  BY DEF PoolProofInv, DepositsInv, offset
<1>2. PICK l \in Nat : /\ l <= DECIMAL_PRECISION
                       /\ pool'.P = NewProduct(pool, l).P
                       /\ pool'.scale = NewProduct(pool, l).scale
                       /\ pool'.epoch = NewProduct(pool, l).epoch
  BY <1>1, OffsetPool, LossRoundsUp
<1>3. PICK g \in Nat : pool'.S = MarginalFILGain(pool, g)
  BY <1>1, OffsetPool
<1>4. Deposit(u)' <= Deposit(u)
  BY <1>1, <1>2, LossShrinks DEF Deposit
<1>5. FILGain(pool, u) <= FILGain(pool, u)'
  BY <1>1, <1>3, GainGrows, EarnedGrows DEF FILGain
<1>. QED
  BY <1>4, <1>5 DEF OthersSafe

\* What others do, and liquidations at any scale, never make a deposit grow nor take
\* from the collateral it earned (StabilityPool.sol:628).
THEOREM GainsAreSafeFromOthers == Spec => OthersNeverTakeGains
<1>1. Spec => []PoolProofInv
  BY InitPool, NextPool, PTL DEF Spec
<1>2. ASSUME PoolProofInv, [Next]_vars
      PROVE  \A u \in Users : OthersSafe(u)
  <2>. SUFFICES ASSUME NEW u \in Users PROVE OthersSafe(u)
    OBVIOUS
  <2>1. ASSUME NEW x \in Users, NEW f, NEW added, Operation(x, f, added)
        PROVE  OthersSafe(u)
    BY <1>2, <2>1, OperationProduct, SameProductSafe
  <2>2. ASSUME NEW debt \in Offsets, NEW coll \in Colls, offset(debt, coll)
        PROVE  OthersSafe(u)
    BY <1>2, <2>2, OffsetSafe
  <2>3. ASSUME pool' = pool
        PROVE  OthersSafe(u)
    BY <1>2, <2>3, SameProductSafe
  <2>4. CASE \E x \in Users, amount \in Provided, tag \in Tags : provideToSP(x, amount, tag)
    BY <2>1, <2>4 DEF provideToSP
  <2>5. CASE \E x \in Users, amount \in Withdrawn : withdrawFromSP(x, amount)
    BY <2>1, <2>5 DEF withdrawFromSP
  <2>6. CASE \E x \in Users : withdrawFILGainToTrove(x)
    BY <2>1, <2>6 DEF withdrawFILGainToTrove
  <2>7. CASE \/ \E f \in Users, rate \in KickbackRates : registerFrontEnd(f, rate)
             \/ updateProtocolTokenSupplyCap
             \/ Supply
             \/ Minute
             \/ UNCHANGED vars
    BY <2>3, <2>7 DEF registerFrontEnd, updateProtocolTokenSupplyCap, Supply, Minute, vars
  <2>. QED
    BY <1>2, <2>2, <2>4, <2>5, <2>6, <2>7 DEF Next
<1>3. ASSUME PoolProofInv, [Next]_vars
      PROVE  [\A u \in Users : deposits'[u] = deposits[u] =>
                 /\ Deposit(u)' <= Deposit(u)
                 /\ FILGain(pool, u)' >= FILGain(pool, u)]_vars
  BY <1>2, <1>3 DEF OthersSafe
<1>. QED
  BY <1>1, <1>3, PTL DEF Spec, OthersNeverTakeGains

-----------------------------------------------------------------------------
(* Gains of collateral.                                                    *)
(*                                                                         *)
(* A gain is a floor, too, and is taken before any division.  An offset    *)
(* then gives each deposit what a unit earns for each unit of its claim,   *)
(* so that the gains exceed what the pool holds by as much as the claims   *)
(* exceed the total.                                                       *)

\* What a deposit has earned since its snapshot, before any division.
GainClaim(S, d) ==
    IF d.value = 0 THEN 0
    ELSE Share(d) * (SCALE_FACTOR * (S[d.snap.epoch][d.snap.scale] - d.snap.S)
                       + S[d.snap.epoch][d.snap.scale + 1])

GainClaimOf == [u \in Users |-> GainClaim(pool.S, deposits[u])]

GainClaims == Total(GainClaimOf)

\* Nothing is earned yet at the scales and in the epochs to come.
FutureInv ==
    \A e \in Epochs, s \in Scales :
        e > pool.epoch \/ (e = pool.epoch /\ s > pool.scale) => pool.S[e][s] = 0

\* The undivided gains exceed the pool's collateral by less than MaxDeposits for what a
\* unit earned in all, and by that much less than the error of the last offset.
GainsInv ==
    DECIMAL_PRECISION * GainClaims + Unit * (DECIMAL_PRECISION * pool.FILError)
      <= Unit * (DECIMAL_PRECISION * (DECIMAL_PRECISION * pool.FIL))
           + Unit * (MaxDeposits * history.FILPerUnit)

GainsProofInv ==
    /\ PoolProofInv
    /\ DOMAIN history = {"FILPerUnit", "tokensPerUnit", "unsent", "countedTwice"}
    /\ pool.FIL \in Nat /\ history.FILPerUnit \in Nat
    /\ FutureInv /\ GainsInv

\* The parts of a deposit that its gain is made of.
LEMMA DepositParts ==
    ASSUME PoolInv, NEW d, IsDeposit(pool, d), d.value # 0
    PROVE  /\ d.value \in Nat /\ d.snap.P \in Nat \ {0} /\ d.snap.S \in Nat
           /\ Common \div d.snap.P \in Nat /\ Common = d.snap.P * (Common \div d.snap.P)
           /\ Share(d) \in Nat
           /\ d.snap.epoch \in Epochs /\ d.snap.scale \in Scales /\ d.snap.scale + 1 \in Scales
           /\ d.snap.epoch \in Nat /\ d.snap.scale \in Nat
           /\ d.snap.epoch <= pool.epoch
           /\ d.snap.epoch = pool.epoch => d.snap.scale <= pool.scale
           /\ d.snap.S <= pool.S[d.snap.epoch][d.snap.scale]
           /\ pool.S[d.snap.epoch][d.snap.scale] \in Nat
           /\ pool.S[d.snap.epoch][d.snap.scale + 1] \in Nat
<1>1. /\ d.value \in Nat /\ d.snap.P \in 1 .. MaxP /\ d.snap.S \in Nat
      /\ d.snap.epoch \in Epochs /\ d.snap.scale \in 0 .. MaxScale
      /\ d.snap.epoch <= pool.epoch
      /\ d.snap.epoch = pool.epoch => d.snap.scale <= pool.scale
      /\ d.snap.S <= pool.S[d.snap.epoch][d.snap.scale]
  BY DEF IsDeposit
<1>2. d.snap.P \in Nat \ {0} /\ d.snap.epoch \in Nat /\ d.snap.scale \in Nat
  BY <1>1, ConstantTypes DEF Epochs
<1>3. d.snap.scale \in Scales /\ d.snap.scale + 1 \in Scales
  BY <1>1, ConstantTypes DEF Scales
<1>4. Common \div d.snap.P \in Nat /\ Common = d.snap.P * (Common \div d.snap.P)
  BY <1>1, ConstantTypes
<1>5. Share(d) \in Nat
  BY <1>1, <1>4, TimesNat DEF Share
<1>6. /\ pool.S[d.snap.epoch][d.snap.scale] \in Nat
      /\ pool.S[d.snap.epoch][d.snap.scale + 1] \in Nat
  BY <1>1, <1>3 DEF PoolInv
<1>. QED
  BY <1>1, <1>2, <1>3, <1>4, <1>5, <1>6

\* The undivided gain covers the gain.
LEMMA GainClaimCovers ==
    ASSUME PoolInv, NEW d, IsDeposit(pool, d)
    PROVE  LET gain == Earned(pool.S, d.value, d.snap, d.snap.S)
           IN /\ GainClaim(pool.S, d) \in Nat /\ gain \in Nat
              /\ Unit * (DECIMAL_PRECISION * gain) <= GainClaim(pool.S, d)
<1>. DEFINE gain == Earned(pool.S, d.value, d.snap, d.snap.S)
<1>1. CASE d.value = 0
  BY <1>1, ConstantTypes DEF Earned, GainClaim
<1>2. CASE d.value # 0
  <2>. DEFINE D == DECIMAL_PRECISION
              F == SCALE_FACTOR
              v == d.value
              s == d.snap.P
              q == Common \div s
              next == pool.S[d.snap.epoch][d.snap.scale + 1]
              first == pool.S[d.snap.epoch][d.snap.scale] - d.snap.S
              second == next \div F
              n == v * (first + second)
              x == n \div s
              y == x \div D
  <2>1. /\ v \in Nat /\ s \in Nat \ {0} /\ q \in Nat /\ Common = s * q /\ Share(d) = v * q
        /\ first \in Nat /\ next \in Nat
        /\ D \in Nat \ {0} /\ F \in Nat \ {0} /\ Common \in Nat
    BY <1>2, ConstantTypes, DepositParts DEF Share
  <2>2. gain = y /\ GainClaim(pool.S, d) = Share(d) * (F * first + next)
    BY <1>2 DEF Earned, GainClaim
  <2>. HIDE DEF gain, first, next, q, s, v
  <2>3. second \in Nat /\ second * F <= next
    BY <2>1, FloorIs
  <2>. HIDE DEF second
  <2>4. n \in Nat
    <3>1. first + second \in Nat
      BY <2>1, <2>3
    <3>. QED
      BY <2>1, <3>1, TimesNat
  <2>5. x \in Nat /\ x * s <= n
    <3>. HIDE DEF n
    <3>. QED
      BY <2>1, <2>4, FloorIs
  <2>6. y \in Nat /\ y * D <= x
    <3>. HIDE DEF x
    <3>. QED
      BY <2>1, <2>5, FloorIs
  <2>. HIDE DEF x, y
  <2>7. (y * D) * s <= n /\ y * D \in Nat
    <3>1. (y * D) * s <= x * s
      BY <2>1, <2>5, <2>6, TimesLeq, TimesNat
    <3>2. y * D \in Nat /\ (y * D) * s \in Nat /\ x * s \in Nat
      BY <2>1, <2>5, <2>6, TimesNat
    <3>. HIDE DEF n
    <3>. QED
      BY <2>4, <2>5, <3>1, <3>2
  <2>8. (F * q) * n <= Share(d) * (F * first + next)
    <3>1. F * (first + second) <= F * first + next /\ F * (first + second) \in Nat
      <4>1. F * (first + second) = F * first + F * second /\ F * second = second * F
        BY <2>1, <2>3, SMT
      <4>2. F * first \in Nat /\ F * second \in Nat
        BY <2>1, <2>3, TimesNat
      <4>. QED
        BY <2>1, <2>3, <4>1, <4>2
    <3>2. (v * q) * (F * (first + second)) <= (v * q) * (F * first + next)
      <4>1. F * first + next \in Nat /\ v * q \in Nat
        BY <2>1, TimesNat
      <4>. QED
        BY <3>1, <4>1, TimesLeq
    <3>3. (F * q) * n = (v * q) * (F * (first + second))
      <4>. DEFINE z == first + second
      <4>1. z \in Nat
        BY <2>1, <2>3
      <4>. HIDE DEF z
      <4>2. (F * q) * (v * z) = (v * q) * (F * z)
        BY <2>1, <4>1, SMT
      <4>. QED
        BY <4>2 DEF z
    <3>. QED
      BY <2>1, <3>2, <3>3
  <2>9. Unit * (D * y) <= (F * q) * n
    <3>1. F * q \in Nat
      BY <2>1, TimesNat
    <3>. DEFINE z == y * D
    <3>2. z \in Nat /\ z * s <= n /\ z * s \in Nat
      BY <2>1, <2>7, TimesNat
    <3>3. D * y = z
      BY <2>1, <2>6, Reorder
    <3>. HIDE DEF z, n
    <3>4. (F * q) * (z * s) <= (F * q) * n
      BY <2>4, <3>1, <3>2, TimesLeq
    <3>5. (F * q) * (z * s) = ((s * q) * F) * z
      BY <2>1, <3>2, SMT
    <3>. QED
      BY <2>1, <3>3, <3>4, <3>5 DEF Unit
  <2>10. /\ Unit * (D * y) \in Nat /\ (F * q) * n \in Nat
         /\ Share(d) * (F * first + next) \in Nat
    <3>1. D * y \in Nat /\ F * q \in Nat /\ F * first + next \in Nat /\ Share(d) \in Nat
      BY <2>1, <2>6, TimesNat
    <3>. HIDE DEF n
    <3>. QED
      BY <2>4, <3>1, ConstantTypes, TimesNat
  <2>. HIDE DEF n
  <2>. QED
    BY <2>2, <2>6, <2>8, <2>9, <2>10 DEF gain
<1>. QED
  BY <1>1, <1>2

LEMMA GainClaimTypes ==
    ASSUME PoolInv, DepositsInv
    PROVE  /\ GainClaimOf \in [Users -> Nat] /\ GainClaims \in Nat
           /\ \A u \in Users :
                /\ FILGain(pool, u) \in Nat
                /\ Unit * (DECIMAL_PRECISION * FILGain(pool, u)) <= GainClaimOf[u]
<1>1. ASSUME NEW u \in Users
      PROVE  /\ GainClaim(pool.S, deposits[u]) \in Nat
             /\ FILGain(pool, u) \in Nat
             /\ Unit * (DECIMAL_PRECISION * FILGain(pool, u)) <= GainClaim(pool.S, deposits[u])
  BY GainClaimCovers DEF DepositsInv, FILGain
<1>2. GainClaimOf \in [Users -> Nat]
  BY <1>1 DEF GainClaimOf
<1>3. GainClaims \in Nat
  BY <1>2, TotalType, PoolAssumption DEF GainClaims
<1>. QED
  BY <1>1, <1>2, <1>3 DEF GainClaimOf

\* The issuance and the history beside what they concern.
LEMMA IssuedKeepsFIL ==
    ASSUME GainsProofInv
    PROVE  /\ Issued.FIL = pool.FIL
           /\ DOMAIN HistoryOfIssued = DOMAIN history
           /\ HistoryOfIssued.FILPerUnit = history.FILPerUnit
<1>1. Issued.FIL = pool.FIL
  BY DEF GainsProofInv, PoolProofInv, PoolInv, Issued
<1>2. DOMAIN HistoryOfIssued = DOMAIN history
  BY DEF HistoryOfIssued
<1>3. HistoryOfIssued.FILPerUnit = history.FILPerUnit
  BY DEF GainsProofInv, HistoryOfIssued
<1>. QED
  BY <1>1, <1>2, <1>3

\* A deposit that was just written down has earned nothing.
LEMMA FreshGain ==
    ASSUME PoolInv, FutureInv, NEW value \in Nat, NEW tag
    PROVE  GainClaim(pool.S, NewDeposit(Issued, value, tag)) = 0
<1>. DEFINE d == NewDeposit(Issued, value, tag)
<1>1. CASE value = 0
  BY <1>1 DEF NewDeposit, NoDeposit, GainClaim
<1>2. CASE value # 0
  <2>1. d = [value |-> value, tag |-> tag, snap |-> Snapshot(Issued)]
    BY <1>2 DEF NewDeposit
  <2>2. /\ d.value = value /\ d.snap.epoch = pool.epoch /\ d.snap.scale = pool.scale
        /\ d.snap.S = pool.S[pool.epoch][pool.scale]
    BY <2>1, IssuedKeeps DEF Snapshot
  <2>3. IsDeposit(pool, d)
    BY FreshClaim
  <2>. HIDE DEF d
  <2>4. /\ Share(d) \in Nat /\ pool.S[pool.epoch][pool.scale] \in Nat
        /\ pool.epoch \in Epochs /\ pool.scale \in Nat /\ pool.scale + 1 \in Scales
    BY <1>2, <2>2, <2>3, DepositParts
  <2>5. pool.S[pool.epoch][pool.scale + 1] = 0
    BY <2>4 DEF FutureInv
  <2>6. GainClaim(pool.S, d) = Share(d) * (SCALE_FACTOR * 0 + 0)
    <3>1. pool.S[pool.epoch][pool.scale] - d.snap.S = 0
      BY <2>2, <2>4
    <3>. QED
      BY <1>2, <2>2, <2>5, <3>1 DEF GainClaim
  <2>. QED
    BY <2>4, <2>6, ConstantTypes DEF d
<1>. QED
  BY <1>1, <1>2

\* An operation of a depositor pays the gain, which the undivided one covers.
LEMMA OperationKeepsGains ==
    ASSUME GainsProofInv, NEW u \in Users, NEW f, NEW added \in Int, Operation(u, f, added),
           Deposit(u) + added \in Nat, PoolProofInv'
    PROVE  GainsProofInv'
<1>. DEFINE value == Deposit(u) + added
            d == NewDeposit(Issued, value, f)
            gain == FILGain(pool, u)
<1>1. PoolProofInv /\ PoolInv /\ DepositsInv /\ FutureInv /\ GainsInv
  BY DEF GainsProofInv, PoolProofInv
<1>2. /\ pool'.S = pool.S /\ pool'.epoch = pool.epoch /\ pool'.scale = pool.scale
  BY <1>1, OperationProduct
<1>3. /\ pool'.FILError = pool.FILError /\ pool'.FIL = pool.FIL - gain /\ gain <= pool.FIL
  <2>. DEFINE p == Issued
  <2>1. /\ DOMAIN p = DOMAIN pool /\ p.S = pool.S /\ p.FILError = pool.FILError
        /\ p.FIL = pool.FIL
    BY <1>1, IssuedKeeps, IssuedKeepsFIL
  <2>2. FILGain(p, u) = gain
    BY <2>1 DEF FILGain
  <2>3. /\ pool' = [p EXCEPT !.total = @ + added, !.FIL = @ - FILGain(p, u)]
        /\ FILGain(p, u) <= p.FIL
    BY DEF Operation
  <2>. HIDE DEF p, gain
  <2>. QED
    BY <1>1, <2>1, <2>2, <2>3 DEF PoolInv
<1>4. DOMAIN history' = DOMAIN history /\ history'.FILPerUnit = history.FILPerUnit
  <2>. DEFINE h == HistoryOfIssued
  <2>1. DOMAIN h = DOMAIN history /\ h.FILPerUnit = history.FILPerUnit
    BY IssuedKeepsFIL
  <2>2. \E x : history' = [h EXCEPT !.unsent = x]
    BY DEF Operation
  <2>. HIDE DEF h
  <2>. QED
    BY <2>1, <2>2 DEF GainsProofInv
<1>5. /\ DOMAIN deposits' = Users /\ deposits'[u] = d
      /\ \A y \in Users \ {u} : deposits'[y] = deposits[y]
  BY <1>1 DEF Operation, DepositsInv
<1>6. GainClaim(pool.S, d) = 0
  BY <1>1, FreshGain
<1>. HIDE DEF d, value
<1>7. /\ GainClaimOf \in [Users -> Nat] /\ GainClaims \in Nat /\ gain \in Nat
      /\ Unit * (DECIMAL_PRECISION * gain) <= GainClaimOf[u]
  BY <1>1, GainClaimTypes
<1>. HIDE DEF gain
<1>8. GainClaims' \in Nat /\ GainClaims' = GainClaims - GainClaimOf[u]
  <2>. DEFINE new == [x \in Users |-> GainClaim(pool.S, deposits'[x])]
  <2>1. new[u] = 0 /\ \A y \in Users \ {u} : new[y] = GainClaimOf[y]
    BY <1>5, <1>6 DEF GainClaimOf
  <2>2. new \in [Users -> Nat]
    <3>1. \A x \in Users : new[x] \in Nat
      BY <1>7, <2>1
    <3>. QED
      BY <3>1
  <2>3. GainClaims' = Total(new)
    BY <1>2 DEF GainClaims, GainClaimOf
  <2>. HIDE DEF new
  <2>4. Total(new) = (Total(GainClaimOf) - GainClaimOf[u]) + new[u]
    BY <1>7, <2>1, <2>2, TotalChange, PoolAssumption
  <2>5. Total(new) \in Nat
    BY <2>2, TotalType, PoolAssumption
  <2>. QED
    BY <1>7, <2>1, <2>3, <2>4, <2>5 DEF GainClaims
<1>9. GainsInv'
  <2>. DEFINE D == DECIMAL_PRECISION
  <2>1. /\ D \in Nat \ {0} /\ Unit \in Nat /\ MaxDeposits \in Nat
        /\ pool.FIL \in Nat /\ pool.FILError \in Nat /\ history.FILPerUnit \in Nat
    BY <1>1, ConstantTypes DEF GainsProofInv, PoolInv
  <2>2. PICK c \in Nat, c2 \in Nat, w \in Nat :
          /\ c = GainClaims /\ c2 = GainClaims' /\ w = GainClaimOf[u] /\ c2 = c - w
    BY <1>7, <1>8
  <2>. DEFINE paid == Unit * (D * gain)
              e == Unit * (D * pool.FILError)
              a == Unit * (MaxDeposits * history.FILPerUnit)
              held == Unit * (D * (D * pool.FIL))
  <2>3. D * c + e <= held + a /\ paid <= w
    BY <1>1, <1>7, <2>2 DEF GainsInv
  <2>4. Unit * (D * (D * (pool.FIL - gain))) = held - D * paid
    BY <1>7, <2>1, SMT
  <2>5. paid \in Nat /\ e \in Nat /\ a \in Nat /\ held \in Nat
    <3>1. /\ D * gain \in Nat /\ D * pool.FILError \in Nat
          /\ MaxDeposits * history.FILPerUnit \in Nat /\ D * (D * pool.FIL) \in Nat
      BY <1>7, <2>1, TimesNat
    <3>. QED
      BY <2>1, <3>1, TimesNat
  <2>. HIDE DEF paid, held, e, a
  <2>6. D * paid <= D * w /\ D * c2 = D * c - D * w
    <3>1. D * (c - w) = D * c - D * w
      BY <2>1, <2>2, SMT
    <3>. QED
      BY <2>1, <2>2, <2>3, <2>5, <3>1, TimesLeq
  <2>7. D * c2 + e <= (held - D * paid) + a
    <3>1. D * c \in Nat /\ D * w \in Nat /\ D * paid \in Nat /\ D * c2 \in Nat
      BY <2>1, <2>2, <2>5, TimesNat
    <3>. QED
      BY <2>3, <2>5, <2>6, <3>1
  <2>. QED
    BY <1>3, <1>4, <2>2, <2>4, <2>7 DEF GainsInv, e, a
<1>10. FutureInv'
  BY <1>1, <1>2 DEF FutureInv
<1>11. pool'.FIL \in Nat /\ history'.FILPerUnit \in Nat
  BY <1>3, <1>4, <1>7 DEF GainsProofInv
<1>. QED
  BY <1>4, <1>9, <1>10, <1>11 DEF GainsProofInv

\* What an offset adds to the collateral is what it gives to the deposits, with the error.
LEMMA OffsetCollateral ==
    ASSUME GainsProofInv, NEW debt \in Offsets, NEW coll \in Colls, offset(debt, coll)
    PROVE  LET gain == FILPerUnit(Issued, coll)
           IN /\ gain.perUnit \in Nat /\ gain.error \in Nat
              /\ gain.perUnit * pool.total + gain.error
                   = coll * DECIMAL_PRECISION + pool.FILError
              /\ pool'.FIL = pool.FIL + coll /\ pool'.FILError = gain.error
              /\ pool'.S = MarginalFILGain(pool, gain.perUnit)
              /\ DOMAIN history' = DOMAIN history
              /\ history'.FILPerUnit = history.FILPerUnit + gain.perUnit
<1>. DEFINE gain == FILPerUnit(Issued, coll)
            t == pool.total
            m == coll * DECIMAL_PRECISION + pool.FILError
            q == m \div t
<1>1. PoolProofInv /\ PoolInv
  BY DEF GainsProofInv, PoolProofInv
<1>2. /\ gain.perUnit \in Nat /\ gain.error \in Nat /\ pool'.FILError = gain.error
      /\ pool'.S = MarginalFILGain(pool, gain.perUnit) /\ debt \in 1 .. t
  BY <1>1, OffsetPool
<1>3. gain.perUnit = q /\ gain.error = m - q * t
  BY <1>1, IssuedKeeps DEF FILPerUnit
<1>4. pool'.FIL = pool.FIL + coll
  <2>. DEFINE p == Issued
  <2>1. DOMAIN p = DOMAIN pool /\ p.FIL = pool.FIL
    BY <1>1, IssuedKeeps, IssuedKeepsFIL
  <2>2. \E a, b, c, x, y, z, v :
            pool' = [p EXCEPT !.P = a, !.scale = b, !.epoch = c, !.S = x, !.FILError = y,
                              !.lossError = z, !.total = v, !.FIL = @ + coll]
    BY DEF offset
  <2>. HIDE DEF p
  <2>. QED
    BY <1>1, <2>1, <2>2 DEF PoolInv
<1>5. DOMAIN history' = DOMAIN history
      /\ history'.FILPerUnit = history.FILPerUnit + gain.perUnit
  <2>. DEFINE h == HistoryOfIssued
  <2>1. DOMAIN h = DOMAIN history /\ h.FILPerUnit = history.FILPerUnit
    BY IssuedKeepsFIL
  <2>2. history' = [h EXCEPT !.FILPerUnit = @ + gain.perUnit]
    BY DEF offset
  <2>. HIDE DEF h, gain
  <2>. QED
    BY <2>1, <2>2 DEF GainsProofInv
<1>. HIDE DEF gain
<1>6. gain.perUnit * t + gain.error = m
  <2>1. m \in Nat /\ t \in Nat
    <3>1. coll \in Nat /\ DECIMAL_PRECISION \in Nat /\ pool.FILError \in Nat
      BY <1>1, ConstantTypes, PoolAssumption DEF PoolInv
    <3>2. coll * DECIMAL_PRECISION \in Nat
      BY <3>1, TimesNat
    <3>3. t \in Nat
      BY <1>1, ConstantTypes DEF PoolInv
    <3>. QED
      BY <3>1, <3>2, <3>3
  <2>. HIDE DEF m, t, q
  <2>2. PICK k \in Nat : k = gain.perUnit
    BY <1>2
  <2>3. k * t \in Nat
    BY <2>1, <2>2, TimesNat
  <2>. QED
    BY <1>3, <2>1, <2>2, <2>3
<1>. QED
  BY <1>2, <1>4, <1>5, <1>6 DEF gain

\* An offset adds to the undivided gain of a deposit what a unit earns for each unit of
\* its claim.
LEMMA GainFollowsClaim ==
    ASSUME PoolInv, NEW d, IsDeposit(pool, d), NEW g \in Nat
    PROVE  GainClaim(MarginalFILGain(pool, g), d) = GainClaim(pool.S, d) + g * Claim(pool, d)
<1>. DEFINE S == MarginalFILGain(pool, g)
            more == g * pool.P
<1>1. CASE d.value = 0
  BY <1>1 DEF GainClaim, Claim
<1>2. CASE d.value # 0
  <2>. DEFINE e == d.snap.epoch
              k == d.snap.scale
              a == Share(d)
              F == SCALE_FACTOR
              start == d.snap.S
              this == pool.S[e][k]
              next == pool.S[e][k + 1]
  <2>1. /\ a \in Nat /\ start \in Nat /\ this \in Nat /\ next \in Nat /\ start <= this
        /\ e \in Epochs /\ k \in Scales /\ k + 1 \in Scales /\ e \in Nat /\ k \in Nat
        /\ e <= pool.epoch /\ (e = pool.epoch => k <= pool.scale)
    BY <1>2, DepositParts
  <2>2. /\ pool.P \in Nat /\ pool.scale \in Nat /\ pool.epoch \in Nat /\ F \in Nat
        /\ pool.S \in [Epochs -> [Scales -> Nat]]
    BY ConstantTypes DEF PoolInv, Epochs
  <2>3. more \in Nat
    BY <2>2, TimesNat
  <2>4. S = [pool.S EXCEPT ![pool.epoch][pool.scale] = @ + more]
    BY DEF MarginalFILGain
  <2>5. /\ S[e][k] = IF e = pool.epoch /\ k = pool.scale THEN this + more ELSE this
        /\ S[e][k + 1] = IF e = pool.epoch /\ k + 1 = pool.scale THEN next + more ELSE next
    <3>. HIDE DEF S, more
    <3>. QED
      BY <2>1, <2>2, <2>4
  <2>6. /\ GainClaim(S, d) = a * (F * (S[e][k] - start) + S[e][k + 1])
        /\ GainClaim(pool.S, d) = a * (F * (this - start) + next)
    BY <1>2 DEF GainClaim
  <2>7. Claim(pool, d) = IF e < pool.epoch THEN 0
                         ELSE CASE pool.scale - k = 0 -> (a * pool.P) * F
                                [] pool.scale - k = 1 -> a * pool.P
                                [] OTHER -> 0
    BY <1>2 DEF Claim
  <2>8. /\ g * ((a * pool.P) * F) = a * (F * more) /\ g * (a * pool.P) = a * more
    BY <2>1, <2>2, SMT
  <2>. DEFINE first == this - start
              b == F * first
  <2>9. first \in Nat /\ b \in Nat
    <3>1. first \in Nat
      BY <2>1
    <3>. QED
      BY <2>2, <3>1, TimesNat
  <2>10. /\ F * (first + more) = b + F * more /\ F * more \in Nat
         /\ a * ((b + F * more) + next) = a * (b + next) + a * (F * more)
         /\ a * (b + (next + more)) = a * (b + next) + a * more
    <3>1. F * (first + more) = b + F * more /\ F * more \in Nat
      <4>. HIDE DEF first, more
      <4>. QED
        BY <2>2, <2>3, <2>9, SMT, TimesNat
    <3>. DEFINE x == F * more
                y == b + next
    <3>2. x \in Nat /\ y \in Nat
      BY <2>1, <2>9, <3>1
    <3>3. (b + x) + next = y + x /\ b + (next + more) = y + more
      BY <2>1, <2>3, <2>9, <3>2
    <3>. HIDE DEF x, y, more
    <3>4. a * (y + x) = a * y + a * x /\ a * (y + more) = a * y + a * more
      BY <2>1, <2>3, <3>2, SMT
    <3>. QED
      BY <3>1, <3>3, <3>4 DEF x, y
  <2>. HIDE DEF more, b, S
  <2>11. CASE e = pool.epoch /\ k = pool.scale
    <3>1. S[e][k] - start = first + more /\ S[e][k + 1] = next
      BY <2>1, <2>3, <2>5, <2>11
    <3>2. Claim(pool, d) = (a * pool.P) * F
      BY <2>1, <2>7, <2>11
    <3>. HIDE DEF first
    <3>. QED
      BY <2>6, <2>8, <2>10, <3>1, <3>2 DEF S, b, first
  <2>12. CASE e = pool.epoch /\ k + 1 = pool.scale
    <3>1. S[e][k] - start = first /\ S[e][k + 1] = next + more
      BY <2>1, <2>5, <2>12
    <3>2. Claim(pool, d) = a * pool.P
      BY <2>1, <2>7, <2>12
    <3>. HIDE DEF first
    <3>. QED
      BY <2>6, <2>8, <2>10, <3>1, <3>2 DEF S, b, first
  <2>13. CASE ~(e = pool.epoch /\ (k = pool.scale \/ k + 1 = pool.scale))
    <3>1. S[e][k] = this /\ S[e][k + 1] = next
      BY <2>5, <2>13
    <3>2. Claim(pool, d) = 0
      <4>1. CASE e < pool.epoch
        BY <2>7, <4>1
      <4>2. CASE ~(e < pool.epoch)
        <5>1. e = pool.epoch
          BY <2>1, <2>2, <4>2
        <5>2. ~(k = pool.scale) /\ ~(k + 1 = pool.scale)
          BY <2>13, <5>1
        <5>3. ~(pool.scale - k = 0) /\ ~(pool.scale - k = 1)
          <6>. HIDE DEF k
          <6>. QED
            BY <2>1, <2>2, <5>2
        <5>. QED
          BY <2>7, <4>2, <5>3
      <4>. QED
        BY <4>1, <4>2
    <3>3. GainClaim(pool.S, d) \in Nat
      BY GainClaimCovers
    <3>. QED
      BY <2>6, <3>1, <3>2, <3>3 DEF S
  <2>. QED
    BY <2>11, <2>12, <2>13
<1>. QED
  BY <1>1, <1>2

LEMMA GainClaimsGrow ==
    ASSUME PoolInv, DepositsInv, NEW g \in Nat, pool'.S = MarginalFILGain(pool, g),
           deposits' = deposits
    PROVE  GainClaims' = GainClaims + g * Claims
<1>. DEFINE old == GainClaimOf
            new == [u \in Users |-> GainClaim(pool'.S, deposits[u])]
            claim == ClaimOf
            earned == [u \in Users |-> g * claim[u]]
<1>1. /\ old \in [Users -> Nat] /\ GainClaims = Total(old)
      /\ claim \in [Users -> Nat] /\ Claims = Total(claim)
  BY GainClaimTypes, ClaimTypes DEF GainClaims
<1>2. ASSUME NEW u \in Users
      PROVE  new[u] = old[u] + g * claim[u]
  BY GainFollowsClaim DEF DepositsInv, GainClaimOf, ClaimOf
<1>3. GainClaims' = Total(new)
  BY DEF GainClaims, GainClaimOf
<1>. HIDE DEF old, claim, new
<1>4. earned \in [Users -> Nat] /\ Total(earned) = g * Total(claim)
  <2>1. earned \in [Users -> Nat]
    BY <1>1, TimesNat
  <2>. QED
    BY <1>1, <2>1, TotalTimes, PoolAssumption
<1>5. \A u \in Users : new[u] = old[u] + earned[u]
  BY <1>2
<1>. HIDE DEF earned
<1>6. new \in [Users -> Nat]
  <2>1. \A u \in Users : new[u] \in Nat
    BY <1>1, <1>4, <1>5
  <2>. QED
    BY <2>1 DEF new
<1>7. Total(new) = Total(old) + Total(earned)
  BY <1>1, <1>4, <1>5, <1>6, TotalAdd, PoolAssumption
<1>. QED
  BY <1>1, <1>3, <1>4, <1>7

\* What the claims exceed the total by earns, and is allowed to, what a unit does.
LEMMA GainsFollowClaims ==
    ASSUME NEW a \in Nat, NEW D \in Nat, NEW c \in Nat, NEW w \in Nat, NEW g \in Nat,
           NEW t \in Nat, NEW m \in Nat, NEW lost \in Nat, NEW FIL \in Nat, NEW h \in Nat,
           NEW coll \in Nat, NEW err \in Nat, NEW err2 \in Nat,
           D * w + a * lost <= a * (t * D + m),
           g * t + err2 = coll * D + err,
           D * c + a * (D * err) <= a * (D * (D * FIL)) + a * (m * h)
    PROVE  D * (c + g * w) + a * (D * err2)
             <= a * (D * (D * (FIL + coll))) + a * (m * (h + g))
<1>1. g * (D * w) <= g * (a * (t * D + m))
  <2>1. D * w \in Nat /\ a * lost \in Nat /\ t * D + m \in Nat
    BY TimesNat
  <2>2. a * (t * D + m) \in Nat
    BY <2>1, TimesNat
  <2>. DEFINE x == D * w
              y == a * (t * D + m)
              z == a * lost
  <2>3. x \in Nat /\ y \in Nat /\ z \in Nat /\ x + z <= y
    BY <2>1, <2>2
  <2>. HIDE DEF x, y, z
  <2>4. g * x <= g * y
    BY <2>3, TimesLeq
  <2>. QED
    BY <2>4 DEF x, y
<1>2. /\ D * (c + g * w) = D * c + g * (D * w)
      /\ g * (a * (t * D + m)) = a * (D * (g * t)) + a * (m * g)
      /\ a * (D * (D * (FIL + coll))) = a * (D * (D * FIL)) + a * (D * (coll * D))
      /\ a * (m * (h + g)) = a * (m * h) + a * (m * g)
  <2>1. D * (c + g * w) = D * c + g * (D * w)
    BY SMT
  <2>2. g * (a * (t * D + m)) = a * (D * (g * t)) + a * (m * g)
    BY SMT
  <2>3. a * (D * (D * (FIL + coll))) = a * (D * (D * FIL)) + a * (D * (coll * D))
    BY SMT
  <2>4. a * (m * (h + g)) = a * (m * h) + a * (m * g)
    BY SMT
  <2>. QED
    BY <2>1, <2>2, <2>3, <2>4
<1>3. a * (D * (g * t)) + a * (D * err2) = a * (D * (coll * D)) + a * (D * err)
  <2>. DEFINE x == g * t
              y == coll * D
  <2>1. x \in Nat /\ y \in Nat /\ x + err2 = y + err
    BY TimesNat
  <2>. HIDE DEF x, y
  <2>2. /\ a * (D * (x + err2)) = a * (D * x) + a * (D * err2)
        /\ a * (D * (y + err)) = a * (D * y) + a * (D * err)
    BY <2>1, SMT
  <2>. QED
    BY <2>1, <2>2 DEF x, y
<1>4. /\ D * c \in Nat /\ g * (D * w) \in Nat /\ a * (D * (g * t)) \in Nat
      /\ a * (m * g) \in Nat /\ a * (m * h) \in Nat /\ a * (D * (D * FIL)) \in Nat
      /\ a * (D * (coll * D)) \in Nat /\ a * (D * err) \in Nat /\ a * (D * err2) \in Nat
  <2>1. /\ D * w \in Nat /\ g * t \in Nat /\ m * g \in Nat /\ m * h \in Nat /\ D * FIL \in Nat
        /\ coll * D \in Nat /\ D * err \in Nat /\ D * err2 \in Nat
    BY TimesNat
  <2>2. D * (g * t) \in Nat /\ D * (D * FIL) \in Nat /\ D * (coll * D) \in Nat
    BY <2>1, TimesNat
  <2>. QED
    BY <2>1, <2>2, TimesNat
<1>. DEFINE dc == D * c
            gw == g * (D * w)
            gt == a * (D * (g * t))
            mg == a * (m * g)
            mh == a * (m * h)
            fil == a * (D * (D * FIL))
            co == a * (D * (coll * D))
            er == a * (D * err)
            er2 == a * (D * err2)
<1>5. /\ gw <= gt + mg /\ gt + er2 = co + er /\ dc + er <= fil + mh
      /\ dc \in Nat /\ gw \in Nat /\ gt \in Nat /\ mg \in Nat /\ mh \in Nat /\ fil \in Nat
      /\ co \in Nat /\ er \in Nat /\ er2 \in Nat
  BY <1>1, <1>2, <1>3, <1>4
<1>6. /\ D * (c + g * w) = dc + gw
      /\ a * (D * (D * (FIL + coll))) = fil + co /\ a * (m * (h + g)) = mh + mg
  BY <1>2
<1>. HIDE DEF dc, gw, gt, mg, mh, fil, co, er, er2
<1>7. (dc + gw) + er2 <= (fil + co) + (mh + mg)
  BY <1>5
<1>. QED
  BY <1>6, <1>7 DEF er2

LEMMA OffsetKeepsGains ==
    ASSUME GainsProofInv, NEW debt \in Offsets, NEW coll \in Colls, offset(debt, coll)
    PROVE  GainsProofInv'
<1>1. PoolProofInv /\ PoolInv /\ DepositsInv /\ ClaimsInv /\ FutureInv /\ GainsInv
  BY DEF GainsProofInv, PoolProofInv
<1>2. PoolProofInv' /\ PoolInv' /\ deposits' = deposits
  BY <1>1, OffsetKeeps DEF PoolProofInv, offset
<1>3. PICK g \in Nat :
        /\ g * pool.total + pool'.FILError = coll * DECIMAL_PRECISION + pool.FILError
        /\ pool'.FILError \in Nat /\ pool'.S = MarginalFILGain(pool, g)
        /\ pool'.FIL = pool.FIL + coll
        /\ DOMAIN history' = DOMAIN history
        /\ history'.FILPerUnit = history.FILPerUnit + g
  BY OffsetCollateral
<1>4. /\ coll \in Nat /\ pool.FIL \in Nat /\ history.FILPerUnit \in Nat /\ pool.total \in Nat
      /\ pool.lossError \in Nat /\ pool.FILError \in Nat /\ MaxDeposits \in Nat
      /\ DECIMAL_PRECISION \in Nat /\ Unit \in Nat
  BY <1>1, ConstantTypes, PoolAssumption DEF GainsProofInv, PoolInv
<1>5. GainsInv'
  <2>1. GainClaims \in Nat /\ Claims \in Nat /\ GainClaims' = GainClaims + g * Claims
    BY <1>1, <1>2, <1>3, GainClaimTypes, ClaimTypes, GainClaimsGrow
  <2>2. PICK err2 \in Nat : err2 = pool'.FILError
    BY <1>3
  <2>3. /\ DECIMAL_PRECISION * Claims + Unit * pool.lossError
              <= Unit * (pool.total * DECIMAL_PRECISION + MaxDeposits)
        /\ DECIMAL_PRECISION * GainClaims + Unit * (DECIMAL_PRECISION * pool.FILError)
              <= Unit * (DECIMAL_PRECISION * (DECIMAL_PRECISION * pool.FIL))
                   + Unit * (MaxDeposits * history.FILPerUnit)
    BY <1>1 DEF ClaimsInv, GainsInv
  <2>4. g * pool.total + err2 = coll * DECIMAL_PRECISION + pool.FILError
    BY <1>3, <2>2
  <2>5. DECIMAL_PRECISION * (GainClaims + g * Claims) + Unit * (DECIMAL_PRECISION * err2)
          <= Unit * (DECIMAL_PRECISION * (DECIMAL_PRECISION * (pool.FIL + coll)))
               + Unit * (MaxDeposits * (history.FILPerUnit + g))
    BY <1>4, <2>1, <2>2, <2>3, <2>4, GainsFollowClaims
  <2>. QED
    BY <1>3, <2>1, <2>2, <2>5 DEF GainsInv
<1>6. FutureInv'
  <2>1. PICK l \in Nat : /\ l <= DECIMAL_PRECISION
                         /\ pool'.scale = NewProduct(pool, l).scale
                         /\ pool'.epoch = NewProduct(pool, l).epoch
    BY <1>1, OffsetPool, LossRoundsUp
  <2>2. \/ pool'.epoch = pool.epoch + 1
        \/ pool'.epoch = pool.epoch /\ pool'.scale \in {pool.scale, pool.scale + 1}
    BY <1>1, <2>1, ProductBounds
  <2>3. /\ pool.epoch \in Nat /\ pool.scale \in Nat /\ pool.scale \in Scales
        /\ pool.epoch \in Epochs /\ pool.S \in [Epochs -> [Scales -> Nat]]
    <3>1. /\ pool.scale \in 0 .. MaxScale /\ pool.epoch \in Epochs
          /\ pool.S \in [Epochs -> [Scales -> Nat]]
      BY <1>1 DEF PoolInv
    <3>2. pool.scale \in Nat /\ pool.scale \in Scales
      BY <3>1, ConstantTypes DEF Scales
    <3>3. pool.epoch \in Nat
      BY <3>1, ConstantTypes DEF Epochs
    <3>. QED
      BY <3>1, <3>2, <3>3
  <2>4. pool'.S = [pool.S EXCEPT ![pool.epoch][pool.scale] = @ + g * pool.P]
    BY <1>3 DEF MarginalFILGain
  <2>5. ASSUME NEW e \in Epochs, NEW s \in Scales,
               e > pool'.epoch \/ (e = pool'.epoch /\ s > pool'.scale)
        PROVE  pool'.S[e][s] = 0
    <3>1. e \in Nat /\ s \in Nat
      BY DEF Epochs, Scales
    <3>2. e > pool.epoch \/ (e = pool.epoch /\ s > pool.scale)
      BY <2>2, <2>3, <2>5, <3>1
    <3>3. pool.S[e][s] = 0 /\ ~(e = pool.epoch /\ s = pool.scale)
      BY <1>1, <2>3, <3>1, <3>2 DEF FutureInv
    <3>. QED
      BY <2>3, <2>4, <3>3
  <2>. QED
    BY <2>5 DEF FutureInv
<1>7. pool'.FIL \in Nat /\ history'.FILPerUnit \in Nat
  BY <1>3, <1>4
<1>. QED
  BY <1>2, <1>3, <1>5, <1>6, <1>7 DEF GainsProofInv

LEMMA InitGains == Init => GainsProofInv
<1>. SUFFICES ASSUME Init PROVE GainsProofInv
  OBVIOUS
<1>1. PoolProofInv /\ PoolInv /\ DepositsInv
  BY InitPool DEF PoolProofInv
<1>2. /\ pool.FIL = 0 /\ pool.FILError = 0 /\ history.FILPerUnit = 0
      /\ DOMAIN history = {"FILPerUnit", "tokensPerUnit", "unsent", "countedTwice"}
      /\ \A e \in Epochs, s \in Scales : pool.S[e][s] = 0
      /\ \A u \in Users : deposits[u].value = 0
  BY DEF Init, NoDeposit
<1>3. GainClaims = 0
  <2>1. GainClaimOf \in [Users -> Nat]
    BY <1>1, GainClaimTypes
  <2>2. \A u \in Users : GainClaimOf[u] = 0
    BY <1>2 DEF GainClaimOf, GainClaim
  <2>. QED
    BY <2>1, <2>2, TotalZero DEF GainClaims
<1>4. GainsInv
  <2>. DEFINE D == DECIMAL_PRECISION
  <2>1. D \in Nat /\ Unit \in Nat /\ MaxDeposits \in Nat
    BY ConstantTypes
  <2>2. /\ D * 0 = 0 /\ Unit * (D * 0) = 0 /\ Unit * (D * (D * 0)) = 0
        /\ Unit * (MaxDeposits * 0) = 0
    BY <2>1
  <2>. QED
    BY <1>2, <1>3, <2>2 DEF GainsInv
<1>. QED
  BY <1>1, <1>2, <1>4 DEF GainsProofInv, FutureInv

LEMMA NextGains == GainsProofInv /\ [Next]_vars => GainsProofInv'
<1>. SUFFICES ASSUME GainsProofInv, [Next]_vars PROVE GainsProofInv'
  OBVIOUS
<1>1. PoolProofInv /\ PoolProofInv' /\ \A u \in Users : Deposit(u) \in Nat
  BY NextPool, ClaimTypes DEF GainsProofInv, PoolProofInv
<1>2. ASSUME NEW u \in Users, NEW amount \in Provided, NEW tag \in Tags,
             provideToSP(u, amount, tag)
      PROVE  GainsProofInv'
  <2>1. PICK f : Operation(u, f, amount)
    BY <1>2 DEF provideToSP
  <2>2. amount \in Nat /\ Deposit(u) + amount \in Nat
    BY <1>1, PoolAssumption
  <2>. QED
    BY <1>1, <2>1, <2>2, OperationKeepsGains
<1>3. ASSUME NEW u \in Users, NEW amount \in Withdrawn, withdrawFromSP(u, amount)
      PROVE  GainsProofInv'
  <2>. DEFINE taken == Min({amount, Deposit(u)})
  <2>1. Operation(u, deposits[u].tag, -taken)
    BY <1>3 DEF withdrawFromSP
  <2>2. taken \in Nat /\ taken <= Deposit(u)
    BY <1>1, MinOfTwo, PoolAssumption
  <2>3. -taken \in Int /\ Deposit(u) + (-taken) \in Nat
    BY <1>1, <2>2
  <2>. QED
    BY <1>1, <2>1, <2>3, OperationKeepsGains
<1>4. ASSUME NEW u \in Users, withdrawFILGainToTrove(u)
      PROVE  GainsProofInv'
  BY <1>1, <1>4, OperationKeepsGains DEF withdrawFILGainToTrove
<1>5. ASSUME NEW debt \in Offsets, NEW coll \in Colls, offset(debt, coll)
      PROVE  GainsProofInv'
  BY <1>5, OffsetKeepsGains
<1>6. ASSUME pool' = pool, deposits' = deposits, DOMAIN history' = DOMAIN history,
             history'.FILPerUnit = history.FILPerUnit
      PROVE  GainsProofInv'
  BY <1>1, <1>6 DEF GainsProofInv, FutureInv, GainsInv, GainClaims, GainClaimOf
<1>7. ASSUME \/ \E f \in Users, rate \in KickbackRates : registerFrontEnd(f, rate)
             \/ Supply
             \/ Minute
             \/ UNCHANGED vars
      PROVE  GainsProofInv'
  <2>1. pool' = pool /\ deposits' = deposits /\ history' = history
    BY <1>7 DEF registerFrontEnd, Supply, Minute, vars
  <2>. QED
    BY <1>6, <2>1
<1>8. ASSUME updateProtocolTokenSupplyCap
      PROVE  GainsProofInv'
  <2>1. /\ pool' = pool /\ deposits' = deposits
        /\ history' = [history EXCEPT !.countedTwice = history.unsent]
    BY <1>8 DEF updateProtocolTokenSupplyCap
  <2>. QED
    BY <1>6, <2>1 DEF GainsProofInv
<1>. QED
  BY <1>2, <1>3, <1>4, <1>5, <1>7, <1>8 DEF Next

\* The collateral gains can be paid but for what the deposits' own excess earned, however
\* offsets, changes of scale and epoch, deposits and withdrawals follow each other
\* (StabilityPool.sol:628, 706).
THEOREM FILGainsAreNearlyCovered == Spec => []FILGainsNearlyCovered
<1>1. Spec => []GainsProofInv
  BY InitGains, NextGains, PTL DEF Spec
<1>2. ASSUME GainsProofInv
      PROVE  FILGainsNearlyCovered
  <2>. DEFINE D == DECIMAL_PRECISION
              k == Unit * D
              gains == [u \in Users |-> FILGain(pool, u)]
              inUnits == [u \in Users |-> k * gains[u]]
              a == MaxDeposits * history.FILPerUnit
  <2>1. PoolInv /\ DepositsInv /\ GainsInv /\ IsFiniteSet(Users)
    BY <1>2, PoolAssumption DEF GainsProofInv, PoolProofInv
  <2>2. /\ D \in Nat \ {0} /\ Unit \in Nat \ {0} /\ k \in Nat \ {0} /\ MaxDeposits \in Nat
        /\ pool.FIL \in Nat /\ pool.FILError \in Nat /\ a \in Nat
    <3>1. /\ D \in Nat \ {0} /\ Unit \in Nat \ {0} /\ MaxDeposits \in Nat
          /\ pool.FIL \in Nat /\ pool.FILError \in Nat /\ history.FILPerUnit \in Nat
      BY <1>2, <2>1, ConstantTypes DEF GainsProofInv, PoolInv
    <3>2. k \in Nat \ {0}
      BY <3>1
    <3>. QED
      BY <3>1, <3>2, TimesNat
  <2>3. /\ GainClaimOf \in [Users -> Nat] /\ GainClaims = Total(GainClaimOf)
        /\ GainClaims \in Nat
        /\ \A u \in Users : gains[u] \in Nat /\ k * gains[u] <= GainClaimOf[u]
    <3>1. ASSUME NEW u \in Users
          PROVE  FILGain(pool, u) \in Nat /\ k * FILGain(pool, u) <= GainClaimOf[u]
      <4>1. /\ FILGain(pool, u) \in Nat
            /\ Unit * (D * FILGain(pool, u)) <= GainClaimOf[u]
        BY <2>1, GainClaimTypes
      <4>. QED
        BY <2>2, <4>1, Reorder
    <3>. QED
      BY <2>1, <3>1, GainClaimTypes DEF GainClaims
  <2>. HIDE DEF k
  <2>4. gains \in [Users -> Nat] /\ inUnits \in [Users -> Nat]
    BY <2>2, <2>3, TimesNat
  <2>5. SumOfFILGains = Total(gains)
    BY DEF SumOfFILGains
  <2>. HIDE DEF gains
  <2>6. Total(inUnits) = k * Total(gains)
    BY <2>1, <2>2, <2>4, TotalTimes
  <2>7. Total(inUnits) <= GainClaims
    <3>1. \A u \in Users : inUnits[u] <= GainClaimOf[u]
      BY <2>3
    <3>. HIDE DEF inUnits
    <3>. QED
      BY <2>1, <2>3, <2>4, <3>1, TotalLeq
  <2>8. Total(gains) \in Nat
    BY <2>1, <2>4, TotalType
  <2>9. PICK s \in Nat : s = Total(gains)
    BY <2>8
  <2>10. D * (k * s) <= D * GainClaims /\ D * (k * s) \in Nat /\ D * GainClaims \in Nat
    BY <2>2, <2>3, <2>6, <2>7, <2>9, TimesLeq, TimesNat
  <2>11. D * GainClaims <= Unit * (D * (D * pool.FIL)) + Unit * a
    <3>1. D * GainClaims + Unit * (D * pool.FILError) <= Unit * (D * (D * pool.FIL)) + Unit * a
      BY <2>1 DEF GainsInv
    <3>2. /\ Unit * (D * pool.FILError) \in Nat /\ Unit * (D * (D * pool.FIL)) \in Nat
          /\ Unit * a \in Nat
      <4>1. D * pool.FILError \in Nat /\ D * (D * pool.FIL) \in Nat
        BY <2>2, TimesNat
      <4>. HIDE DEF a
      <4>. QED
        BY <2>2, <4>1, TimesNat
    <3>. QED
      BY <2>10, <3>1, <3>2
  <2>. HIDE DEF a
  <2>12. Unit * (((s - pool.FIL) * D) * D) <= Unit * a
    <3>1. /\ D * (k * s) = Unit * ((s * D) * D)
          /\ Unit * (D * (D * pool.FIL)) = Unit * ((pool.FIL * D) * D)
          /\ Unit * (((s - pool.FIL) * D) * D)
               = Unit * ((s * D) * D) - Unit * ((pool.FIL * D) * D)
      <4>1. PICK x \in Nat : x = pool.FIL
        BY <2>2
      <4>2. D * ((Unit * D) * s) = Unit * ((s * D) * D)
        BY <2>2, SMT
      <4>3. Unit * (D * (D * x)) = Unit * ((x * D) * D)
        BY <2>2, SMT
      <4>4. Unit * (((s - x) * D) * D) = Unit * ((s * D) * D) - Unit * ((x * D) * D)
        BY <2>2, SMT
      <4>. QED
        BY <4>1, <4>2, <4>3, <4>4 DEF k
    <3>2. /\ Unit * ((s * D) * D) \in Nat /\ Unit * ((pool.FIL * D) * D) \in Nat
          /\ Unit * a \in Nat
      <4>1. (s * D) * D \in Nat /\ (pool.FIL * D) * D \in Nat
        BY <2>2, TimesNat
      <4>. QED
        BY <2>2, <4>1, TimesNat
    <3>. QED
      BY <2>10, <2>11, <3>1, <3>2
  <2>13. ((s - pool.FIL) * D) * D <= a
    <3>1. ((s - pool.FIL) * D) * D \in Int
      BY <2>2
    <3>. QED
      BY <2>2, <2>12, <3>1, CancelLeq
  <2>. QED
    BY <2>5, <2>9, <2>13 DEF FILGainsNearlyCovered, a
<1>. QED
  BY <1>1, <1>2, PTL

=============================================================================
