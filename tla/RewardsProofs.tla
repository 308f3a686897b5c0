--------------------------- MODULE RewardsProofs ---------------------------
(***************************************************************************)
(* The rewards of the Unipool and of the staking contract, and the decay   *)
(* of the base rate, for any users, amounts, duration and factor.          *)
(*                                                                         *)
(* PeriodIsKept is nearly inductive.  What it needs besides is that the    *)
(* clock's fields are natural numbers, of which the reward per token is    *)
(* one only if no user has been paid for more than it (Earned subtracts),  *)
(* and that nothing is credited before the program starts.                 *)
(*                                                                         *)
(* That each contract can pay what it owes in sum is not inductive, since  *)
(* what is owed to each is rounded down.  What is: the sum of what is owed *)
(* before the division, with what the rest of the program will stream, or  *)
(* what nobody earned, is at most the balance times the precision.  The    *)
(* index rises by a quotient, so all the units together gain no more than  *)
(* is shared; a payment clears all that is owed to one and takes the       *)
(* quotient from the balance.                                              *)
(*                                                                         *)
(* The decay multiplies by a power.  That the loop that computes it is a   *)
(* function at all is LoopFunction; that a decimal at most 1 has a power   *)
(* at most 1 follows by induction on the exponent.                         *)
(***************************************************************************)
EXTENDS Unipool, Fees, SumsProofs, TLAPS

IInv ==
    /\ TypeOK
    /\ PeriodIsKept
    /\ ~started => clock.credited = 0
    /\ \A u \in Users : paidPerToken[u] <= clock.perToken

\* The clock as the operations of a started program find it.
RunningClock(k) ==
    /\ k \in Clocks
    /\ k.last <= now /\ k.last <= k.finish
    /\ k.credited + (k.finish - k.last) = duration

-----------------------------------------------------------------------------
(* Arithmetic.                                                             *)

\* Rewards per token and per balance are rounded down to natural numbers.
LEMMA DivNat ==
    ASSUME NEW a \in Nat, NEW b \in Nat \ {0}
    PROVE  a \div b \in Nat
  BY SMT

LEMMA TimesNat ==
    ASSUME NEW a \in Nat, NEW b \in Nat
    PROVE  a * b \in Nat
  BY SMT

\* What a user has earned is a natural number if it was paid for no more than the
\* reward per token it is computed with.
LEMMA EarnedNat ==
    ASSUME UnipoolAssumption, TypeOK, NEW u \in Users,
           NEW perToken \in Nat, paidPerToken[u] <= perToken,
           NEW balance \in Nat, NEW reward \in Nat
    PROVE  Earned(u, perToken, balance, reward) \in Nat
<1>1. perToken - paidPerToken[u] \in Nat
  BY DEF TypeOK
<1>2. balance * (perToken - paidPerToken[u]) \in Nat
  BY <1>1, TimesNat
<1>3. (balance * (perToken - paidPerToken[u])) \div PRECISION \in Nat
  BY <1>2, DivNat DEF UnipoolAssumption
<1>. QED  BY <1>3 DEF Earned

\* The reward per token does not decrease.
LEMMA PerTokenGrows ==
    ASSUME UnipoolAssumption, TypeOK, NEW k \in Clocks, k.last <= now, k.last <= k.finish,
           NEW supply \in Nat
    PROVE  /\ rewardPerToken(k, supply) \in Nat
           /\ rewardPerToken(k, supply) >= k.perToken
<1>1. k.perToken \in Nat
  BY DEF Clocks
<1>2. CASE supply = 0
  BY <1>1, <1>2 DEF rewardPerToken
<1>3. CASE supply # 0
  <2>1. lastTimeRewardApplicable(k) - k.last \in Nat
    BY DEF lastTimeRewardApplicable, MinOf, Clocks, TypeOK
  <2>2. (lastTimeRewardApplicable(k) - k.last) * rewardRate \in Nat
    BY <2>1, TimesNat DEF TypeOK
  <2>3. ((lastTimeRewardApplicable(k) - k.last) * rewardRate) * PRECISION \in Nat
    BY <2>2, TimesNat DEF UnipoolAssumption
  <2>4. (((lastTimeRewardApplicable(k) - k.last) * rewardRate) * PRECISION) \div supply \in Nat
    BY <1>3, <2>3, DivNat
  <2>. QED  BY <1>1, <1>3, <2>4 DEF rewardPerToken
<1>. QED  BY <1>2, <1>3

-----------------------------------------------------------------------------
(* The two operations on the clock.                                        *)

\* _updatePeriodFinish leaves a clock that is not behind, whose period is longer
\* by the time that nobody staked.
LEMMA ExtendedClock ==
    ASSUME UnipoolAssumption, TypeOK, NEW k, RunningClock(k), NEW supply \in Nat
    PROVE  /\ Extended(k, supply) \in Clocks
           /\ Extended(k, supply).last = k.last
           /\ Extended(k, supply).perToken = k.perToken
           /\ Extended(k, supply).credited = k.credited
           /\ Extended(k, supply).finish =
                IF supply = 0 THEN k.finish + now - k.last ELSE k.finish
<1>1. CASE supply = 0
  <2>1. k.finish + now - k.last \in Nat
    BY DEF RunningClock, Clocks, TypeOK
  <2>. QED  BY <1>1, <2>1 DEF Extended, RunningClock, Clocks
<1>2. CASE supply # 0
  BY <1>2 DEF Extended, RunningClock, Clocks
<1>. QED  BY <1>1, <1>2

\* _updateReward, when somebody stakes: the time since the last update that is in
\* the period is credited.
LEMMA UpdatedClock ==
    ASSUME UnipoolAssumption, TypeOK, NEW k, RunningClock(k), NEW supply \in Nat \ {0}
    PROVE  /\ RunningClock(Updated(k, supply))
           /\ Updated(k, supply).perToken >= k.perToken
<1>. DEFINE last == lastTimeRewardApplicable(k)
            perToken == rewardPerToken(k, supply)
            credited == k.credited + (last - k.last)
<1>1. k \in Clocks /\ k.last <= now /\ k.last <= k.finish
  BY DEF RunningClock
<1>2. perToken \in Nat /\ perToken >= k.perToken
  BY <1>1, PerTokenGrows
<1>3. last \in Nat /\ last >= k.last /\ last <= now /\ last <= k.finish
  BY <1>1 DEF lastTimeRewardApplicable, MinOf, Clocks, TypeOK
<1>4. credited \in Nat
  BY <1>1, <1>3 DEF Clocks
<1>. HIDE DEF last, perToken, credited
<1>5. Updated(k, supply) =
        [finish |-> k.finish, last |-> last, perToken |-> perToken, credited |-> credited]
  BY DEF Updated, last, perToken, credited
<1>6. /\ Updated(k, supply) \in Clocks
      /\ Updated(k, supply).finish = k.finish /\ Updated(k, supply).perToken = perToken
      /\ Updated(k, supply).last = last /\ Updated(k, supply).credited = credited
  BY <1>1, <1>2, <1>3, <1>4, <1>5 DEF Clocks
<1>7. credited + (k.finish - last) = duration
  BY <1>1, <1>3 DEF RunningClock, credited, Clocks
<1>. QED  BY <1>2, <1>3, <1>6, <1>7 DEF RunningClock

\* _updatePeriodFinish and then _updateReward, whether somebody stakes or not:
\* if nobody does, the last update is now, and nothing is credited.
LEMMA ExtendedAndUpdatedClock ==
    ASSUME UnipoolAssumption, TypeOK, NEW k, RunningClock(k), NEW supply \in Nat
    PROVE  LET j == Updated(Extended(k, supply), supply)
           IN RunningClock(j) /\ j.perToken >= k.perToken
<1>1. CASE supply # 0
  BY <1>1, UpdatedClock DEF Extended
<1>2. CASE supply = 0
  <2>. DEFINE x == Extended(k, supply)
  <2>1. /\ x \in Clocks /\ x.last = k.last /\ x.perToken = k.perToken
        /\ x.credited = k.credited /\ x.finish = k.finish + now - k.last
    BY <1>2, ExtendedClock
  <2>. HIDE DEF x
  <2>2. now <= x.finish
    BY <2>1 DEF RunningClock, Clocks, TypeOK
  <2>3. /\ rewardPerToken(x, supply) = x.perToken
        /\ lastTimeRewardApplicable(x) = now
        /\ x.credited + (IF supply = 0 THEN 0 ELSE lastTimeRewardApplicable(x) - x.last)
             = x.credited
    BY <1>2, <2>1, <2>2 DEF rewardPerToken, lastTimeRewardApplicable, MinOf, Clocks
  <2>4. /\ Updated(x, supply) \in Clocks
        /\ Updated(x, supply).finish = x.finish
        /\ Updated(x, supply).perToken = x.perToken
        /\ Updated(x, supply).last = now
        /\ Updated(x, supply).credited = x.credited
    BY <1>2, <2>1, <2>3 DEF Updated, Clocks, TypeOK
  <2>5. x.credited + (x.finish - now) = duration
    BY <2>1 DEF RunningClock, Clocks, TypeOK
  <2>6. k.perToken \in Nat /\ now \in Nat
    BY DEF RunningClock, Clocks, TypeOK
  <2>7. RunningClock(Updated(x, supply)) /\ Updated(x, supply).perToken >= k.perToken
    BY <2>1, <2>2, <2>4, <2>5, <2>6 DEF RunningClock
  <2>. QED  BY <2>7 DEF x
<1>. QED  BY <1>1, <1>2

-----------------------------------------------------------------------------
(* The invariant.                                                          *)

LEMMA InitIInv == UnipoolAssumption /\ Init => IInv
<1>. SUFFICES ASSUME UnipoolAssumption, Init PROVE IInv
  OBVIOUS
<1>1. clock \in Clocks /\ clock.credited = 0 /\ clock.perToken = 0
  BY DEF Init, Clocks
<1>2. TypeOK
  BY <1>1 DEF UnipoolAssumption, Init, TypeOK
<1>3. ~started /\ \A u \in Users : paidPerToken[u] = 0
  BY DEF Init
<1>. QED  BY <1>1, <1>2, <1>3 DEF IInv, PeriodIsKept

\* What a step leaves to show, once its clock is known to run: the accounts.
LEMMA AccountsKept ==
    ASSUME UnipoolAssumption, IInv, started, started' = started, now' = now,
           rewardRate' = rewardRate,
           RunningClock(clock'), clock'.perToken >= clock.perToken,
           totalSupply' \in Nat, held' \in Nat, balances' \in [Users -> Nat],
           NEW u \in Users, NEW perToken \in Nat,
           perToken = clock'.perToken,
           paidPerToken' = [paidPerToken EXCEPT ![u] = perToken],
           rewards' \in [Users -> Nat]
    PROVE  IInv'
<1>1. TypeOK'
  <2>1. paidPerToken' \in [Users -> Nat]
    BY DEF IInv, TypeOK
  <2>. QED  BY <2>1 DEF IInv, TypeOK, RunningClock
<1>2. PeriodIsKept'
  BY DEF PeriodIsKept, RunningClock
<1>3. \A v \in Users : paidPerToken'[v] <= clock'.perToken
  BY DEF IInv, TypeOK, Clocks, RunningClock
<1>. QED  BY <1>1, <1>2, <1>3 DEF IInv

LEMMA NextIInv == UnipoolAssumption /\ IInv /\ [Next]_vars => IInv'
<1>. SUFFICES ASSUME UnipoolAssumption, IInv, [Next]_vars PROVE IInv'
  OBVIOUS
<1>t. TypeOK
  BY DEF IInv
<1>r. ASSUME started PROVE RunningClock(clock)
  BY <1>r DEF IInv, TypeOK, PeriodIsKept, RunningClock
<1>1. ASSUME setParams PROVE IInv'
  <2>1. held \div duration \in Nat
    BY DivNat DEF IInv, TypeOK, UnipoolAssumption
  <2>2. /\ clock'.last = now /\ clock'.finish = now + duration
        /\ clock'.perToken = clock.perToken /\ clock'.credited = clock.credited
        /\ clock' \in Clocks
    <3>1. clock \in Clocks /\ now \in Nat /\ now + duration \in Nat
      BY DEF IInv, TypeOK, UnipoolAssumption
    <3>2. clock' = [clock EXCEPT !.last = now, !.finish = now + duration]
      BY <1>1 DEF setParams
    <3>. QED  BY <3>1, <3>2 DEF Clocks
  <2>3. TypeOK'
    BY <1>1, <2>1, <2>2 DEF setParams, IInv, TypeOK
  <2>4. PeriodIsKept'
    BY <1>1, <2>2 DEF setParams, IInv, TypeOK, PeriodIsKept, UnipoolAssumption
  <2>. QED  BY <1>1, <2>2, <2>3, <2>4 DEF setParams, IInv
<1>2. ASSUME NEW u \in Users, NEW amount \in Amounts, stake(u, amount) PROVE IInv'
  <2>1. RunningClock(clock') /\ clock'.perToken >= clock.perToken
    BY <1>t, <1>r, <1>2, ExtendedAndUpdatedClock DEF stake, TypeOK
  <2>2. clock'.perToken \in Nat /\ paidPerToken[u] <= clock'.perToken
    BY <2>1 DEF RunningClock, Clocks, IInv, TypeOK
  <2>3. Earned(u, clock'.perToken, balances[u], rewards[u]) \in Nat
    BY <1>t, <2>2, EarnedNat DEF TypeOK
  <2>4. amount \in Nat
    BY DEF UnipoolAssumption
  <2>5. totalSupply' \in Nat /\ held' \in Nat /\ balances' \in [Users -> Nat]
    BY <1>2, <2>4 DEF stake, IInv, TypeOK
  <2>6. rewards' \in [Users -> Nat]
    BY <1>2, <2>3 DEF stake, Account, IInv, TypeOK
  <2>7. /\ paidPerToken' = [paidPerToken EXCEPT ![u] = clock'.perToken]
        /\ started /\ started' = started /\ now' = now /\ rewardRate' = rewardRate
    BY <1>2 DEF stake, Account
  <2>. QED  BY <2>1, <2>2, <2>5, <2>6, <2>7, AccountsKept
<1>3. ASSUME NEW u \in Users, NEW amount \in Amounts, withdraw(u, amount) PROVE IInv'
  <2>1. totalSupply \in Nat \ {0} /\ amount \in Nat
    BY <1>3 DEF withdraw, IInv, TypeOK, UnipoolAssumption
  <2>2. RunningClock(clock') /\ clock'.perToken >= clock.perToken
    BY <1>t, <1>r, <1>3, <2>1, UpdatedClock DEF withdraw
  <2>3. clock'.perToken \in Nat /\ paidPerToken[u] <= clock'.perToken
    BY <2>2 DEF RunningClock, Clocks, IInv, TypeOK
  <2>4. Earned(u, clock'.perToken, balances[u], rewards[u]) \in Nat
    BY <1>t, <2>3, EarnedNat DEF TypeOK
  <2>5. totalSupply' \in Nat /\ held' \in Nat /\ balances' \in [Users -> Nat]
    BY <1>3, <2>1 DEF withdraw, IInv, TypeOK
  <2>6. rewards' \in [Users -> Nat]
    BY <1>3, <2>4 DEF withdraw, Account, IInv, TypeOK
  <2>7. /\ paidPerToken' = [paidPerToken EXCEPT ![u] = clock'.perToken]
        /\ started /\ started' = started /\ now' = now /\ rewardRate' = rewardRate
    BY <1>3 DEF withdraw, Account
  <2>. QED  BY <2>2, <2>3, <2>5, <2>6, <2>7, AccountsKept
<1>4. ASSUME NEW u \in Users, claimReward(u) PROVE IInv'
  <2>. DEFINE k == Updated(Extended(clock, totalSupply), totalSupply)
  <2>1. RunningClock(k) /\ k.perToken >= clock.perToken
    BY <1>t, <1>r, <1>4, ExtendedAndUpdatedClock DEF claimReward, TypeOK
  <2>2. k.perToken \in Nat /\ paidPerToken[u] <= k.perToken
    BY <2>1 DEF RunningClock, Clocks, IInv, TypeOK
  <2>3. Earned(u, k.perToken, balances[u], rewards[u]) \in Nat
    BY <1>t, <2>2, EarnedNat DEF TypeOK
  <2>4. /\ Claim(u, k, Earned(u, k.perToken, balances[u], rewards[u]))
        /\ UNCHANGED <<now, started, rewardRate, balances, totalSupply>>
        /\ started
    BY <1>4 DEF claimReward
  <2>. HIDE DEF k
  <2>5. /\ clock' = k /\ held' \in Nat /\ rewards' \in [Users -> Nat]
        /\ paidPerToken' = [paidPerToken EXCEPT ![u] = k.perToken]
    BY <2>3, <2>4 DEF Claim, IInv, TypeOK
  <2>6. totalSupply' \in Nat /\ balances' \in [Users -> Nat]
    BY <2>4 DEF IInv, TypeOK
  <2>. QED  BY <2>1, <2>2, <2>4, <2>5, <2>6, AccountsKept
<1>5. ASSUME NEW u \in Users, withdrawAndClaim(u) PROVE IInv'
  <2>. DEFINE left == totalSupply - balances[u]
              k == Updated(clock, totalSupply)
              j == Updated(Extended(k, left), left)
  <2>1. totalSupply \in Nat \ {0} /\ left \in Nat
    BY <1>5 DEF withdrawAndClaim, IInv, TypeOK
  <2>2. RunningClock(k) /\ k.perToken >= clock.perToken
    BY <1>t, <1>r, <1>5, <2>1, UpdatedClock DEF withdrawAndClaim
  <2>3. k.perToken \in Nat /\ paidPerToken[u] <= k.perToken
    BY <2>2 DEF RunningClock, Clocks, IInv, TypeOK
  <2>4. Earned(u, k.perToken, balances[u], rewards[u]) \in Nat
    BY <1>t, <2>3, EarnedNat DEF TypeOK
  <2>5. /\ Claim(u, j, Earned(u, k.perToken, balances[u], rewards[u]))
        /\ totalSupply' = left /\ balances' = [balances EXCEPT ![u] = 0]
        /\ UNCHANGED <<now, started, rewardRate>>
        /\ started
    BY <1>5 DEF withdrawAndClaim
  <2>. HIDE DEF k, left
  <2>6. RunningClock(j) /\ j.perToken >= k.perToken
    BY <1>t, <2>1, <2>2, ExtendedAndUpdatedClock
  <2>. HIDE DEF j
  <2>7. j.perToken \in Nat /\ j.perToken >= clock.perToken
    BY <2>2, <2>6 DEF RunningClock, Clocks, IInv, TypeOK
  <2>8. /\ clock' = j /\ held' \in Nat /\ rewards' \in [Users -> Nat]
        /\ paidPerToken' = [paidPerToken EXCEPT ![u] = j.perToken]
    BY <2>4, <2>5 DEF Claim, IInv, TypeOK
  <2>9. totalSupply' \in Nat /\ balances' \in [Users -> Nat]
    BY <2>1, <2>5 DEF IInv, TypeOK
  <2>. QED  BY <2>5, <2>6, <2>7, <2>8, <2>9, AccountsKept
<1>6. ASSUME Tick PROVE IInv'
  BY <1>6 DEF Tick, IInv, TypeOK, PeriodIsKept, Clocks
<1>7. ASSUME UNCHANGED vars PROVE IInv'
  BY <1>7 DEF vars, IInv, TypeOK, PeriodIsKept
<1>. QED  BY <1>1, <1>2, <1>3, <1>4, <1>5, <1>6, <1>7 DEF Next

\* The state of the contract has its types: in particular no reward is negative.
THEOREM UnipoolTypeCorrect == Spec => []TypeOK
<1>1. Init => IInv
  BY InitIInv, UnipoolAssumption
<1>2. IInv /\ [Next]_vars => IInv'
  BY NextIInv, UnipoolAssumption
<1>3. IInv => TypeOK
  BY DEF IInv
<1>. QED  BY <1>1, <1>2, <1>3, PTL DEF Spec

\* Whatever the users do and however long nobody stakes, the time credited and the
\* time left are the duration of the program.
THEOREM PeriodKept == Spec => []PeriodIsKept
<1>1. Init => IInv
  BY InitIInv, UnipoolAssumption
<1>2. IInv /\ [Next]_vars => IInv'
  BY NextIInv, UnipoolAssumption
<1>3. IInv => PeriodIsKept
  BY DEF IInv
<1>. QED  BY <1>1, <1>2, <1>3, PTL DEF Spec

-----------------------------------------------------------------------------
(* The decimal power.                                                      *)

\* A product of decimals is a natural number; of two that are at most 1, at most 1.
LEMMA DecMulBounds ==
    ASSUME FeesAssumption, NEW x \in Nat, NEW y \in Nat
    PROVE  /\ decMul(x, y) \in Nat
           /\ x <= DECIMAL_PRECISION /\ y <= DECIMAL_PRECISION
                => decMul(x, y) <= DECIMAL_PRECISION
<1>. DEFINE d == DECIMAL_PRECISION
            n == x * y + d \div 2
<1>1. d \in Nat \ {0}
  BY DEF FeesAssumption
<1>2. d \div 2 \in Nat /\ d \div 2 < d
  BY <1>1, SMT
<1>. HIDE DEF d
<1>3. x * y \in Nat
  BY SMT
<1>4. n \in Nat
  BY <1>2, <1>3
<1>5. n \div d \in Nat
  <2>. HIDE DEF n
  <2>. QED  BY <1>1, <1>4, DivNat
<1>6. ASSUME x <= d, y <= d
      PROVE  n \div d <= d
  <2>1. x * y <= d * d
    BY <1>1, <1>6, SMT
  <2>2. n < d * d + d /\ d * d \in Nat
    BY <1>1, <1>2, <1>3, <2>1
  <2>3. n < (d + 1) * d
    BY <1>1, <1>4, <2>2
  <2>. HIDE DEF n
  <2>4. n \div d < d + 1
    BY <1>1, <1>4, <2>3, SMT
  <2>. QED  BY <1>1, <1>5, <2>4
<1>. QED  BY <1>5, <1>6 DEF decMul, d, n

\* An iteration leaves natural numbers, of which n is smaller; decimals that are at
\* most 1 stay so.
LEMMA IterationSmaller ==
    ASSUME FeesAssumption, NEW s \in LoopStates
    PROVE  /\ Iteration(s) \in LoopStates
           /\ s.n > 1 => Iteration(s).n < s.n
           /\ s.x <= DECIMAL_PRECISION /\ s.y <= DECIMAL_PRECISION
                => /\ Iteration(s).x <= DECIMAL_PRECISION
                   /\ Iteration(s).y <= DECIMAL_PRECISION
<1>1. s.x \in Nat /\ s.y \in Nat /\ s.n \in Nat
  BY DEF LoopStates
<1>2. decMul(s.x, s.x) \in Nat /\ decMul(s.x, s.y) \in Nat
  BY <1>1, DecMulBounds
<1>3. CASE s.n % 2 = 0
  <2>1. s.n \div 2 \in Nat /\ (s.n > 1 => s.n \div 2 < s.n)
    BY <1>1, SMT
  <2>2. Iteration(s) = [x |-> decMul(s.x, s.x), y |-> s.y, n |-> s.n \div 2]
    BY <1>3 DEF Iteration
  <2>. QED  BY <1>1, <1>2, <2>1, <2>2, DecMulBounds DEF LoopStates
<1>4. CASE s.n % 2 # 0
  <2>1. (s.n - 1) \div 2 \in Nat /\ (s.n > 1 => (s.n - 1) \div 2 < s.n)
    BY <1>1, <1>4, SMT
  <2>2. Iteration(s) =
          [x |-> decMul(s.x, s.x), y |-> decMul(s.x, s.y), n |-> (s.n - 1) \div 2]
    BY <1>4 DEF Iteration
  <2>. QED  BY <1>1, <1>2, <2>1, <2>2, DecMulBounds DEF LoopStates
<1>. QED  BY <1>3, <1>4

\* The loop ends, from every state, with what its definition says.
LEMMA SquaringDefined ==
    ASSUME FeesAssumption
    PROVE  \A s \in LoopStates :
              Squaring[s] = IF s.n > 1 THEN Squaring[Iteration(s)] ELSE decMul(s.x, s.y)
<1>. DEFINE size == [s \in LoopStates |-> s.n]
            next == [s \in LoopStates |-> Iteration(s)]
            last == [s \in LoopStates |-> decMul(s.x, s.y)]
<1>1. Shrinks(LoopStates, size, next) /\ last \in [LoopStates -> Nat]
  <2>1. \A s \in LoopStates : s.n \in Nat /\ s.x \in Nat /\ s.y \in Nat
    BY DEF LoopStates
  <2>2. \A s \in LoopStates : Iteration(s) \in LoopStates /\ decMul(s.x, s.y) \in Nat
    BY <2>1, IterationSmaller, DecMulBounds
  <2>3. \A s \in LoopStates : s.n > 1 => Iteration(s).n < s.n
    BY IterationSmaller
  <2>. QED  BY <2>1, <2>2, <2>3 DEF Shrinks
<1>2. PICK f \in [LoopStates -> Nat] : Returns(LoopStates, size, next, last, f)
  <2>. HIDE DEF size, next, last
  <2>. QED  BY <1>1, LoopFunction
<1>3. f = [s \in LoopStates |-> IF s.n > 1 THEN f[Iteration(s)] ELSE decMul(s.x, s.y)]
  BY <1>2 DEF Returns
<1>4. Squaring =
        [s \in LoopStates |-> IF s.n > 1 THEN Squaring[Iteration(s)] ELSE decMul(s.x, s.y)]
  BY <1>3 DEF Squaring
<1>. QED  BY <1>4

\* What it returns is a natural number, at most 1 if x and y were.
LEMMA SquaringBounds ==
    ASSUME FeesAssumption
    PROVE  \A s \in LoopStates :
              /\ Squaring[s] \in Nat
              /\ s.x <= DECIMAL_PRECISION /\ s.y <= DECIMAL_PRECISION
                   => Squaring[s] <= DECIMAL_PRECISION
<1>. DEFINE Bounded(s) == /\ Squaring[s] \in Nat
                          /\ s.x <= DECIMAL_PRECISION /\ s.y <= DECIMAL_PRECISION
                               => Squaring[s] <= DECIMAL_PRECISION
            Good == {n \in Nat : \A s \in LoopStates : s.n <= n => Bounded(s)}
<1>1. ASSUME NEW s \in LoopStates, ~ (s.n > 1)
      PROVE  Bounded(s)
  <2>1. s.x \in Nat /\ s.y \in Nat
    BY DEF LoopStates
  <2>2. Squaring[s] = decMul(s.x, s.y)
    BY <1>1, SquaringDefined
  <2>. QED  BY <2>1, <2>2, DecMulBounds
<1>2. 0 \in Good
  <2>1. \A s \in LoopStates : s.n <= 0 => ~ (s.n > 1)
    BY DEF LoopStates
  <2>. HIDE DEF Bounded
  <2>. QED  BY <1>1, <2>1
<1>3. ASSUME NEW n \in Nat, n \in Good
      PROVE  n + 1 \in Good
  <2>1. ASSUME NEW s \in LoopStates, s.n <= n + 1, s.n > 1
        PROVE  Bounded(s)
    <3>1. /\ Iteration(s) \in LoopStates /\ Iteration(s).n < s.n
          /\ s.x <= DECIMAL_PRECISION /\ s.y <= DECIMAL_PRECISION
               => /\ Iteration(s).x <= DECIMAL_PRECISION
                  /\ Iteration(s).y <= DECIMAL_PRECISION
      BY <2>1, IterationSmaller
    <3>2. Iteration(s).n <= n
      BY <2>1, <3>1 DEF LoopStates
    <3>3. Bounded(Iteration(s))
      <4>. HIDE DEF Bounded
      <4>. QED  BY <1>3, <3>1, <3>2
    <3>4. Squaring[s] = Squaring[Iteration(s)]
      BY <2>1, SquaringDefined
    <3>. QED  BY <3>1, <3>3, <3>4
  <2>. HIDE DEF Bounded
  <2>. QED  BY <1>1, <2>1
<1>4. Nat \subseteq Good
  <2>. HIDE DEF Good
  <2>. QED  BY <1>2, <1>3, InductionOnNat
<1>5. ASSUME NEW s \in LoopStates
      PROVE  Bounded(s)
  <2>1. s.n \in Nat /\ s.n \in Good
    BY <1>4 DEF LoopStates
  <2>. HIDE DEF Bounded
  <2>. QED  BY <2>1
<1>. QED  BY <1>5

\* A decimal that is at most 1, to any power, is a decimal that is at most 1.
LEMMA DecPowBounds ==
    ASSUME FeesAssumption, NEW base \in 0..DECIMAL_PRECISION, NEW minutes \in Nat
    PROVE  decPow(base, minutes) \in 0..DECIMAL_PRECISION
<1>1. DECIMAL_PRECISION \in Nat /\ MAX_MINUTES \in Nat
  BY DEF FeesAssumption
<1>. DEFINE n == IF minutes > MAX_MINUTES THEN MAX_MINUTES ELSE minutes
            s == [x |-> base, y |-> DECIMAL_PRECISION, n |-> n]
<1>2. s \in LoopStates /\ s.x = base /\ s.y = DECIMAL_PRECISION
  BY <1>1 DEF LoopStates
<1>. HIDE DEF s
<1>3. Squaring[s] \in 0..DECIMAL_PRECISION
  BY <1>1, <1>2, SquaringBounds
<1>. QED  BY <1>1, <1>3 DEF decPow, s

-----------------------------------------------------------------------------
(* Shares of an index.  Both contracts keep a sum of rewards per unit and, *)
(* for each account, the value it was last paid at: an account is owed its *)
(* units times the difference, and what was kept for it before.            *)

Owings(accounts, units, index, paid, kept) ==
    [u \in accounts |-> units[u] * (index - paid[u]) + kept[u]]

\* No account was paid at more than the index.
NotPaidBeyond(accounts, paid, index) == \A u \in accounts : paid[u] <= index

\* The account u is brought up to the index; its units may change and so may what is
\* kept for it.
Settles(accounts, u, index, units, paid, kept, units2, paid2, kept2) ==
    /\ \A f \in {units, paid, kept, units2, paid2, kept2} : f \in [accounts -> Nat]
    /\ NotPaidBeyond(accounts, paid, index) /\ paid2[u] = index
    /\ \A v \in accounts \ {u} :
          units2[v] = units[v] /\ paid2[v] = paid[v] /\ kept2[v] = kept[v]

LEMMA OwingsType ==
    ASSUME NEW D, NEW units \in [D -> Nat], NEW index \in Nat, NEW paid \in [D -> Nat],
           NEW kept \in [D -> Nat], NotPaidBeyond(D, paid, index)
    PROVE  Owings(D, units, index, paid, kept) \in [D -> Nat]
<1>1. ASSUME NEW u \in D
      PROVE  units[u] * (index - paid[u]) + kept[u] \in Nat
  <2>1. index - paid[u] \in Nat
    BY DEF NotPaidBeyond
  <2>2. units[u] * (index - paid[u]) \in Nat
    BY <2>1, TimesNat
  <2>. QED  BY <2>2
<1>. QED  BY <1>1 DEF Owings

\* When the index rises, what is owed rises by as much for each unit.
LEMMA OwingsGrow ==
    ASSUME NEW D, IsFiniteSet(D), NEW units \in [D -> Nat], NEW index \in Nat,
           NEW rise \in Nat, NEW paid \in [D -> Nat], NEW kept \in [D -> Nat],
           NotPaidBeyond(D, paid, index)
    PROVE  Total(Owings(D, units, index + rise, paid, kept)) =
              Total(Owings(D, units, index, paid, kept)) + rise * Total(units)
<1>. DEFINE old  == Owings(D, units, index, paid, kept)
            new  == Owings(D, units, index + rise, paid, kept)
            more == [u \in D |-> rise * units[u]]
<1>1. old \in [D -> Nat]
  BY OwingsType
<1>2. NotPaidBeyond(D, paid, index + rise)
  BY DEF NotPaidBeyond
<1>3. new \in [D -> Nat]
  BY <1>2, OwingsType
<1>4. more \in [D -> Nat] /\ \A u \in D : more[u] = rise * units[u]
  BY TimesNat
<1>5. ASSUME NEW u \in D
      PROVE  new[u] = old[u] + more[u]
  <2>1. /\ units[u] \in Nat /\ paid[u] \in Nat /\ kept[u] \in Nat
        /\ index - paid[u] \in Nat
    BY DEF NotPaidBeyond
  <2>2. (index + rise) - paid[u] = (index - paid[u]) + rise
    BY <2>1
  <2>3. units[u] * ((index - paid[u]) + rise)
          = units[u] * (index - paid[u]) + rise * units[u]
    BY <2>1
  <2>4. units[u] * (index - paid[u]) \in Nat /\ rise * units[u] \in Nat
    BY <2>1, TimesNat
  <2>5. new[u] = units[u] * ((index + rise) - paid[u]) + kept[u]
    BY DEF Owings
  <2>6. old[u] = units[u] * (index - paid[u]) + kept[u]
    BY DEF Owings
  <2>. QED  BY <2>1, <2>2, <2>3, <2>4, <2>5, <2>6
<1>. HIDE DEF old, new, more
<1>6. Total(new) = Total(old) + Total(more)
  BY <1>1, <1>3, <1>4, <1>5, TotalAdd
<1>7. Total(more) = rise * Total(units)
  BY <1>4, TotalTimes
<1>. QED  BY <1>6, <1>7 DEF old, new

\* The sum then loses what u was owed, and gains what is kept.
LEMMA OwingsSettled ==
    ASSUME NEW D, IsFiniteSet(D), NEW u \in D, NEW index \in Nat,
           NEW units, NEW paid, NEW kept, NEW units2, NEW paid2, NEW kept2,
           Settles(D, u, index, units, paid, kept, units2, paid2, kept2)
    PROVE  /\ Total(Owings(D, units2, index, paid2, kept2))
                = (Total(Owings(D, units, index, paid, kept))
                     - Owings(D, units, index, paid, kept)[u]) + kept2[u]
           /\ Total(Owings(D, units, index, paid, kept)) \in Nat
           /\ Owings(D, units, index, paid, kept)[u]
                <= Total(Owings(D, units, index, paid, kept))
<1>. DEFINE old == Owings(D, units, index, paid, kept)
            new == Owings(D, units2, index, paid2, kept2)
<1>t. /\ units \in [D -> Nat] /\ paid \in [D -> Nat] /\ kept \in [D -> Nat]
      /\ units2 \in [D -> Nat] /\ paid2 \in [D -> Nat] /\ kept2 \in [D -> Nat]
      /\ NotPaidBeyond(D, paid, index) /\ paid2[u] = index
  BY DEF Settles
<1>1. old \in [D -> Nat]
  BY <1>t, OwingsType
<1>2. NotPaidBeyond(D, paid2, index)
  BY <1>t DEF NotPaidBeyond, Settles
<1>3. new \in [D -> Nat]
  BY <1>t, <1>2, OwingsType
<1>4. \A v \in D \ {u} : new[v] = old[v]
  BY DEF Owings, Settles
<1>5. new[u] = kept2[u]
  <2>1. new[u] = units2[u] * (index - index) + kept2[u]
    BY <1>t DEF Owings
  <2>2. units2[u] * (index - index) = 0 /\ kept2[u] \in Nat
    BY <1>t
  <2>. QED  BY <2>1, <2>2
<1>. HIDE DEF old, new
<1>6. Total(new) = (Total(old) - old[u]) + new[u] /\ old[u] <= Total(old)
  BY <1>1, <1>3, <1>4, TotalChange
<1>7. Total(old) \in Nat
  BY <1>1, TotalType
<1>. QED  BY <1>5, <1>6, <1>7 DEF old, new

\* A quotient times its divisor.
LEMMA DivTimes ==
    ASSUME NEW a \in Nat, NEW b \in Nat \ {0}
    PROVE  a \div b \in Nat /\ (a \div b) * b <= a /\ b * (a \div b) <= a
<1>1. a = b * (a \div b) + (a % b) /\ a % b \in Nat
  OBVIOUS
<1>2. a \div b \in Nat
  BY DivNat
<1>3. b * (a \div b) = (a \div b) * b /\ (a \div b) * b \in Nat
  BY <1>2, TimesNat
<1>. QED  BY <1>1, <1>2, <1>3

\* What every account can be paid, rounded down, adds up to no more than is owed.
LEMMA PayableCovered ==
    ASSUME NEW D, IsFiniteSet(D), NEW scale \in Nat \ {0}, NEW owings \in [D -> Nat],
           NEW payable \in [D -> Nat], \A u \in D : scale * payable[u] <= owings[u]
    PROVE  scale * Total(payable) <= Total(owings)
<1>. DEFINE scaled == [u \in D |-> scale * payable[u]]
<1>1. scaled \in [D -> Nat] /\ \A u \in D : scaled[u] = scale * payable[u]
  BY TimesNat
<1>. HIDE DEF scaled
<1>2. Total(scaled) = scale * Total(payable)
  BY <1>1, TotalTimes
<1>3. Total(scaled) <= Total(owings)
  BY <1>1, TotalLeq
<1>. QED  BY <1>2, <1>3

-----------------------------------------------------------------------------
(* The rewards of the Unipool are covered.                                 *)

Scaled(r) == [u \in Users |-> PRECISION * r[u]]

\* The amount covers what the users are owed at the clock k, before the division by
\* PRECISION, and what the program will still stream.
Funded(k, rate, units, paid, r, amount) ==
    Total(Owings(Users, units, k.perToken, paid, Scaled(r)))
        + PRECISION * (rate * (k.finish - k.last))
      <= PRECISION * amount

CoveredInv ==
    /\ totalSupply = Total(balances)
    /\ started => Funded(clock, rewardRate, balances, paidPerToken, rewards, held)
    /\ ~started => \A u \in Users : balances[u] = 0 /\ rewards[u] = 0

\* Both sides of a comparison are divided by the same number.
LEMMA CancelTimes ==
    ASSUME NEW a \in Nat, NEW b \in Nat, NEW d \in Nat \ {0}, d * a <= d * b
    PROVE  a <= b
  OBVIOUS

\* A number is multiplied by a sum.
LEMMA TimesOver ==
    ASSUME NEW a \in Int, NEW b \in Int, NEW d \in Int
    PROVE  d * (a + b) = d * a + d * b /\ d * (a - b) = d * a - d * b
  OBVIOUS

LEMMA ScaledType ==
    ASSUME UnipoolAssumption, NEW r \in [Users -> Nat]
    PROVE  Scaled(r) \in [Users -> Nat] /\ \A u \in Users : Scaled(r)[u] = PRECISION * r[u]
<1>1. \A u \in Users : PRECISION * r[u] \in Nat
  BY TimesNat DEF UnipoolAssumption
<1>. QED  BY <1>1 DEF Scaled

\* What is streamed in t seconds moves from the rest of the program to the users.
LEMMA StreamMoves ==
    ASSUME NEW owed \in Nat, NEW more \in Nat, NEW p \in Nat, NEW rate \in Nat,
           NEW left \in Nat, NEW t \in Nat, t <= left, NEW limit \in Nat,
           owed + p * (rate * left) <= limit, more <= (t * rate) * p
    PROVE  (owed + more) + p * (rate * (left - t)) <= limit
<1>1. rate * (left - t) = rate * left - rate * t
  BY TimesOver
<1>2. rate * left \in Int /\ rate * t \in Int
  OBVIOUS
<1>3. p * (rate * left - rate * t) = p * (rate * left) - p * (rate * t)
  BY <1>2, TimesOver
<1>4. (t * rate) * p = p * (rate * t)
  OBVIOUS
<1>5. p * (rate * left) \in Int /\ p * (rate * t) \in Int
  OBVIOUS
<1>. QED  BY <1>1, <1>3, <1>4, <1>5

\* The account of a user is settled, and what is paid out to it leaves the contract.
LEMMA PaymentCovered ==
    ASSUME NEW owed \in Nat, NEW gain \in Nat, NEW p \in Nat \ {0}, NEW kept \in Nat,
           NEW kept2 \in Nat, NEW out \in Nat, kept2 + out = gain \div p + kept,
           gain + p * kept <= owed,
           NEW rest \in Nat, NEW amount \in Nat, owed + rest <= p * amount
    PROVE  ((owed - (gain + p * kept)) + p * kept2) + rest <= p * (amount - out)
<1>. DEFINE q == gain \div p
<1>1. q \in Nat /\ p * q <= gain
  BY DivTimes
<1>. HIDE DEF q
<1>2. p * (kept2 + out) = p * kept2 + p * out /\ p * (q + kept) = p * q + p * kept
  BY <1>1, TimesOver
<1>3. p * (amount - out) = p * amount - p * out
  BY TimesOver
<1>4. kept2 + out = q + kept
  BY DEF q
<1>5. /\ p * kept2 \in Int /\ p * out \in Int /\ p * q \in Int /\ p * kept \in Int
      /\ p * amount \in Int
  BY <1>1
<1>. QED  BY <1>1, <1>2, <1>3, <1>4, <1>5

\* _updateReward: the reward per token rises by no more than what was streamed to all
\* the tokens staked.
LEMMA FundedUpdated ==
    ASSUME UnipoolAssumption, TypeOK, NEW k \in Clocks, k.last <= now, k.last <= k.finish,
           NEW units \in [Users -> Nat], NEW paid \in [Users -> Nat],
           NEW r \in [Users -> Nat], NEW amount \in Nat,
           NotPaidBeyond(Users, paid, k.perToken),
           Funded(k, rewardRate, units, paid, r, amount)
    PROVE  Funded(Updated(k, Total(units)), rewardRate, units, paid, r, amount)
<1>. DEFINE supply == Total(units)
            t    == lastTimeRewardApplicable(k) - k.last
            rise == IF supply = 0 THEN 0 ELSE ((t * rewardRate) * PRECISION) \div supply
            owed == Total(Owings(Users, units, k.perToken, paid, Scaled(r)))
<1>1. /\ IsFiniteSet(Users) /\ PRECISION \in Nat \ {0} /\ rewardRate \in Nat /\ now \in Nat
      /\ k.perToken \in Nat /\ k.finish \in Nat /\ k.last \in Nat
  BY DEF UnipoolAssumption, TypeOK, Clocks
<1>2. t \in Nat /\ t <= k.finish - k.last
  BY <1>1 DEF lastTimeRewardApplicable, MinOf
<1>3. supply \in Nat
  BY <1>1, TotalType
<1>4. rise \in Nat /\ rise * supply <= (t * rewardRate) * PRECISION
  <2>1. (t * rewardRate) * PRECISION \in Nat
    <3>. HIDE DEF t
    <3>. QED  BY <1>1, <1>2, TimesNat
  <2>. HIDE DEF supply, t
  <2>2. CASE supply = 0
    BY <2>1, <2>2
  <2>3. CASE supply # 0
    BY <1>3, <2>1, <2>3, DivTimes
  <2>. QED  BY <2>2, <2>3
<1>5. /\ Updated(k, supply).finish = k.finish
      /\ Updated(k, supply).last = k.last + t
      /\ Updated(k, supply).perToken = k.perToken + rise
  <2>1. lastTimeRewardApplicable(k) \in Nat
    BY <1>1 DEF lastTimeRewardApplicable, MinOf
  <2>2. rewardPerToken(k, supply) = k.perToken + rise
    <3>. HIDE DEF supply
    <3>. QED  BY <1>1 DEF rewardPerToken
  <2>. QED  BY <1>1, <2>1, <2>2 DEF Updated
<1>6. Scaled(r) \in [Users -> Nat]
  BY ScaledType
<1>7. owed \in Nat
  <2>1. Owings(Users, units, k.perToken, paid, Scaled(r)) \in [Users -> Nat]
    BY <1>1, <1>6, OwingsType
  <2>. QED  BY <1>1, <2>1, TotalType
<1>8. Total(Owings(Users, units, k.perToken + rise, paid, Scaled(r))) = owed + rise * supply
  <2>. DEFINE index == k.perToken
              kept  == Scaled(r)
  <2>1. index \in Nat /\ kept \in [Users -> Nat] /\ NotPaidBeyond(Users, paid, index)
    BY <1>1, <1>6
  <2>. HIDE DEF rise, index, kept
  <2>2. Total(Owings(Users, units, index + rise, paid, kept))
          = Total(Owings(Users, units, index, paid, kept)) + rise * Total(units)
    BY <1>1, <1>4, <2>1, OwingsGrow
  <2>. QED  BY <2>2 DEF index, kept
<1>9. rise * supply \in Nat /\ PRECISION * amount \in Nat /\ k.finish - k.last \in Nat
  <2>. HIDE DEF rise, supply
  <2>. QED  BY <1>1, <1>3, <1>4, TimesNat
<1>10. owed + PRECISION * (rewardRate * (k.finish - k.last)) <= PRECISION * amount
  BY DEF Funded
<1>11. (owed + rise * supply) + PRECISION * (rewardRate * ((k.finish - k.last) - t))
         <= PRECISION * amount
  <2>. HIDE DEF rise, supply, t, owed
  <2>. QED  BY <1>1, <1>2, <1>4, <1>7, <1>9, <1>10, StreamMoves
<1>12. (k.finish - k.last) - t = k.finish - (k.last + t)
  <2>. HIDE DEF t
  <2>. QED  BY <1>1, <1>2
<1>. HIDE DEF supply, t, rise, owed
<1>13. Funded(Updated(k, supply), rewardRate, units, paid, r, amount)
  BY <1>5, <1>8, <1>11, <1>12 DEF Funded
<1>. QED  BY <1>13 DEF supply

\* _updatePeriodFinish and then _updateReward: while nobody stakes, the rest of the
\* program stays as it is.
LEMMA FundedExtended ==
    ASSUME UnipoolAssumption, TypeOK, NEW k, RunningClock(k),
           NEW units \in [Users -> Nat], NEW paid \in [Users -> Nat],
           NEW r \in [Users -> Nat], NEW amount \in Nat,
           NotPaidBeyond(Users, paid, k.perToken),
           Funded(k, rewardRate, units, paid, r, amount)
    PROVE  Funded(Updated(Extended(k, Total(units)), Total(units)), rewardRate,
                  units, paid, r, amount)
<1>. DEFINE supply == Total(units)
<1>1. k \in Clocks /\ k.last <= now /\ k.last <= k.finish
  BY DEF RunningClock
<1>2. CASE supply # 0
  BY <1>1, <1>2, FundedUpdated DEF Extended
<1>3. CASE supply = 0
  <2>. DEFINE x == Extended(k, supply)
  <2>1. /\ x \in Clocks /\ x.last = k.last /\ x.perToken = k.perToken
        /\ x.finish = k.finish + now - k.last
    BY <1>3, ExtendedClock
  <2>. HIDE DEF x, supply
  <2>2. now \in Nat /\ k.last \in Nat /\ k.finish \in Nat /\ k.perToken \in Nat
    BY <1>1 DEF TypeOK, Clocks
  <2>3. now <= x.finish
    BY <1>1, <2>1, <2>2
  <2>4. rewardPerToken(x, supply) = k.perToken /\ lastTimeRewardApplicable(x) = now
    BY <1>3, <2>1, <2>2, <2>3 DEF rewardPerToken, lastTimeRewardApplicable, MinOf
  <2>5. /\ Updated(x, supply).finish = x.finish
        /\ Updated(x, supply).last = now
        /\ Updated(x, supply).perToken = k.perToken
    BY <2>4 DEF Updated
  <2>6. x.finish - now = k.finish - k.last
    BY <2>1, <2>2
  <2>7. Funded(Updated(x, supply), rewardRate, units, paid, r, amount)
    BY <2>5, <2>6 DEF Funded
  <2>. QED  BY <2>7 DEF x, supply
<1>. QED  BY <1>2, <1>3

\* _updateAccountReward, or a payment: what is kept for the user and what is paid out
\* are together what it had earned.
LEMMA FundedAccount ==
    ASSUME UnipoolAssumption, NEW k \in Clocks, k.last <= k.finish, NEW rate \in Nat,
           NEW u \in Users,
           NEW units, NEW paid, NEW r, NEW units2, NEW paid2, NEW r2,
           NEW amount \in Nat, NEW out \in Nat,
           Settles(Users, u, k.perToken, units, paid, r, units2, paid2, r2),
           r2[u] + out = (units[u] * (k.perToken - paid[u])) \div PRECISION + r[u],
           Funded(k, rate, units, paid, r, amount)
    PROVE  Funded(k, rate, units2, paid2, r2, amount - out)
<1>. DEFINE owed == Total(Owings(Users, units, k.perToken, paid, Scaled(r)))
            gain == units[u] * (k.perToken - paid[u])
            rest == PRECISION * (rate * (k.finish - k.last))
<1>1. /\ IsFiniteSet(Users) /\ PRECISION \in Nat \ {0} /\ k.perToken \in Nat
      /\ k.finish - k.last \in Nat
  BY DEF UnipoolAssumption, Clocks
<1>t. /\ units \in [Users -> Nat] /\ paid \in [Users -> Nat] /\ r \in [Users -> Nat]
      /\ units2 \in [Users -> Nat] /\ paid2 \in [Users -> Nat] /\ r2 \in [Users -> Nat]
      /\ NotPaidBeyond(Users, paid, k.perToken)
  BY DEF Settles
<1>2. /\ Scaled(r) \in [Users -> Nat] /\ Scaled(r2) \in [Users -> Nat]
      /\ \A v \in Users : Scaled(r)[v] = PRECISION * r[v]
      /\ \A v \in Users : Scaled(r2)[v] = PRECISION * r2[v]
  BY <1>t, ScaledType
<1>3. Settles(Users, u, k.perToken, units, paid, Scaled(r), units2, paid2, Scaled(r2))
  BY <1>2 DEF Settles
<1>4. /\ Total(Owings(Users, units2, k.perToken, paid2, Scaled(r2)))
           = (owed - (gain + Scaled(r)[u])) + Scaled(r2)[u]
      /\ owed \in Nat
      /\ gain + Scaled(r)[u] <= owed
  <2>. DEFINE index == k.perToken
              kept  == Scaled(r)
              kept2 == Scaled(r2)
  <2>1. index \in Nat /\ Settles(Users, u, index, units, paid, kept, units2, paid2, kept2)
    BY <1>1, <1>3
  <2>. HIDE DEF index, kept, kept2
  <2>2. /\ Total(Owings(Users, units2, index, paid2, kept2))
             = (Total(Owings(Users, units, index, paid, kept))
                  - Owings(Users, units, index, paid, kept)[u]) + kept2[u]
        /\ Total(Owings(Users, units, index, paid, kept)) \in Nat
        /\ Owings(Users, units, index, paid, kept)[u]
             <= Total(Owings(Users, units, index, paid, kept))
    BY <1>1, <2>1, OwingsSettled
  <2>3. Owings(Users, units, index, paid, kept)[u]
          = units[u] * (index - paid[u]) + kept[u]
    BY DEF Owings
  <2>. QED  BY <2>2, <2>3 DEF index, kept, kept2
<1>5. gain \in Nat
  <2>1. k.perToken - paid[u] \in Nat
    BY <1>1, <1>t DEF NotPaidBeyond
  <2>. QED  BY <1>t, <2>1, TimesNat
<1>6. rest \in Nat
  BY <1>1, TimesNat
<1>7. owed + rest <= PRECISION * amount
  BY DEF Funded
<1>8. r2[u] + out = gain \div PRECISION + r[u] /\ r[u] \in Nat /\ r2[u] \in Nat
  BY <1>t
<1>. HIDE DEF owed, gain, rest
<1>9. gain + PRECISION * r[u] <= owed
  BY <1>2, <1>4
<1>10. ((owed - (gain + PRECISION * r[u])) + PRECISION * r2[u]) + rest
         <= PRECISION * (amount - out)
  BY <1>1, <1>4, <1>5, <1>6, <1>7, <1>8, <1>9, PaymentCovered
<1>. QED  BY <1>2, <1>4, <1>10 DEF Funded, rest

\* The tokens staked are the sum of the balances, also after one of them changed.
LEMMA SupplyChanges ==
    ASSUME UnipoolAssumption, NEW u \in Users, NEW units \in [Users -> Nat],
           NEW units2 \in [Users -> Nat], \A v \in Users \ {u} : units2[v] = units[v]
    PROVE  Total(units2) = (Total(units) - units[u]) + units2[u]
<1>1. IsFiniteSet(Users)
  BY DEF UnipoolAssumption
<1>. QED  BY <1>1, TotalChange

LEMMA SetParamsCovered ==
    ASSUME UnipoolAssumption, IInv, CoveredInv, setParams
    PROVE  CoveredInv'
<1>. DEFINE owings == Owings(Users, balances, clock.perToken, paidPerToken, Scaled(rewards))
<1>1. /\ held \in Nat /\ duration \in Nat \ {0} /\ PRECISION \in Nat \ {0} /\ now \in Nat
      /\ balances \in [Users -> Nat] /\ rewards \in [Users -> Nat]
      /\ paidPerToken \in [Users -> Nat] /\ clock.perToken \in Nat
      /\ NotPaidBeyond(Users, paidPerToken, clock.perToken)
  BY DEF UnipoolAssumption, IInv, TypeOK, Clocks, NotPaidBeyond
<1>2. \A u \in Users : balances[u] = 0 /\ rewards[u] = 0
  BY DEF setParams, CoveredInv
<1>3. Scaled(rewards) \in [Users -> Nat] /\ \A u \in Users : Scaled(rewards)[u] = 0
  BY <1>1, <1>2, ScaledType
<1>4. owings \in [Users -> Nat]
  BY <1>1, <1>3, OwingsType
<1>5. ASSUME NEW u \in Users
      PROVE  owings[u] = 0
  <2>1. owings[u] = balances[u] * (clock.perToken - paidPerToken[u]) + Scaled(rewards)[u]
    BY DEF Owings
  <2>2. clock.perToken - paidPerToken[u] \in Nat
    BY <1>1 DEF NotPaidBeyond
  <2>. QED  BY <1>2, <1>3, <2>1, <2>2
<1>6. Total(owings) = 0
  <2>. HIDE DEF owings
  <2>. QED  BY <1>4, <1>5, TotalZero
<1>7. /\ clock'.perToken = clock.perToken /\ clock'.finish = now + duration
      /\ clock'.last = now
  BY DEF setParams, IInv, TypeOK, Clocks
<1>8. clock'.finish - clock'.last = duration
  BY <1>1, <1>7
<1>. DEFINE rate == held \div duration
<1>9. rate \in Nat /\ rate * duration <= held
  BY <1>1, DivTimes
<1>. HIDE DEF rate
<1>10. 0 + PRECISION * (rate * duration) <= PRECISION * held
  <2>1. rate * duration \in Nat
    BY <1>1, <1>9, TimesNat
  <2>. QED  BY <1>1, <1>9, <2>1
<1>11. Funded(clock', rate, balances, paidPerToken, rewards, held)
  BY <1>6, <1>7, <1>8, <1>10 DEF Funded
<1>12. /\ started' /\ rewardRate' = rate
       /\ UNCHANGED <<balances, totalSupply, paidPerToken, rewards, held>>
  BY DEF setParams, rate
<1>. QED  BY <1>11, <1>12 DEF CoveredInv

\* A step that settles the account of u at the clock k, and pays it the amount out.
LEMMA SettleCovered ==
    ASSUME UnipoolAssumption, IInv, NEW k, RunningClock(k), NEW u \in Users,
           NEW out \in Nat, held' = held - out, rewardRate' = rewardRate,
           started, started' = started, clock' = k, held' \in Nat,
           paidPerToken[u] <= k.perToken,
           Settles(Users, u, k.perToken, balances, paidPerToken, rewards,
                   balances', paidPerToken', rewards'),
           rewards'[u] + out = Earned(u, k.perToken, balances[u], rewards[u]),
           Funded(k, rewardRate, balances, paidPerToken, rewards, held)
    PROVE  Funded(clock', rewardRate', balances', paidPerToken', rewards', held')
<1>1. k \in Clocks /\ k.last <= k.finish /\ rewardRate \in Nat /\ held \in Nat
  BY DEF RunningClock, IInv, TypeOK
<1>2. rewards'[u] + out
        = (balances[u] * (k.perToken - paidPerToken[u])) \div PRECISION + rewards[u]
  BY DEF Earned
<1>3. Funded(k, rewardRate, balances', paidPerToken', rewards', held - out)
  BY <1>1, <1>2, FundedAccount
<1>. QED  BY <1>3

LEMMA StakeCovered ==
    ASSUME UnipoolAssumption, IInv, CoveredInv,
           NEW u \in Users, NEW amount \in Amounts, stake(u, amount)
    PROVE  CoveredInv'
<1>. DEFINE k == Updated(Extended(clock, totalSupply), totalSupply)
<1>1. /\ TypeOK /\ RunningClock(clock) /\ amount \in Nat /\ totalSupply \in Nat
      /\ balances \in [Users -> Nat] /\ rewards \in [Users -> Nat] /\ held \in Nat
      /\ paidPerToken \in [Users -> Nat]
      /\ NotPaidBeyond(Users, paidPerToken, clock.perToken)
      /\ totalSupply = Total(balances)
      /\ Funded(clock, rewardRate, balances, paidPerToken, rewards, held)
  BY DEF stake, CoveredInv, IInv, TypeOK, PeriodIsKept, RunningClock, NotPaidBeyond,
         UnipoolAssumption
<1>2. RunningClock(k) /\ k.perToken >= clock.perToken
  BY <1>1, ExtendedAndUpdatedClock
<1>3. Funded(k, rewardRate, balances, paidPerToken, rewards, held)
  BY <1>1, FundedExtended
<1>4. /\ started /\ started' = started /\ clock' = k /\ Account(u, k)
      /\ totalSupply' = totalSupply + amount
      /\ balances' = [balances EXCEPT ![u] = @ + amount]
      /\ rewardRate' = rewardRate /\ held' = held
  BY DEF stake
<1>. HIDE DEF k
<1>5. k.perToken \in Nat /\ NotPaidBeyond(Users, paidPerToken, k.perToken)
  BY <1>1, <1>2 DEF RunningClock, Clocks, NotPaidBeyond
<1>6. Earned(u, k.perToken, balances[u], rewards[u]) \in Nat
  BY <1>1, <1>5, EarnedNat DEF NotPaidBeyond
<1>7. /\ balances' \in [Users -> Nat] /\ paidPerToken' \in [Users -> Nat]
      /\ rewards' \in [Users -> Nat]
      /\ paidPerToken'[u] = k.perToken
      /\ rewards'[u] = Earned(u, k.perToken, balances[u], rewards[u])
      /\ \A v \in Users \ {u} :
           /\ balances'[v] = balances[v]
           /\ paidPerToken'[v] = paidPerToken[v]
           /\ rewards'[v] = rewards[v]
  BY <1>1, <1>4, <1>5, <1>6 DEF Account
<1>8. Settles(Users, u, k.perToken, balances, paidPerToken, rewards,
              balances', paidPerToken', rewards')
  BY <1>1, <1>5, <1>7 DEF Settles
<1>9. Funded(clock', rewardRate', balances', paidPerToken', rewards', held')
  <2>1. held' = held - 0 /\ rewards'[u] + 0 = Earned(u, k.perToken, balances[u], rewards[u])
    BY <1>1, <1>4, <1>6, <1>7
  <2>2. paidPerToken[u] <= k.perToken /\ held' \in Nat /\ 0 \in Nat
    BY <1>1, <1>4, <1>5 DEF NotPaidBeyond
  <2>. QED  BY <1>2, <1>3, <1>4, <1>8, <2>1, <2>2, SettleCovered
<1>10. totalSupply' = Total(balances')
  <2>1. Total(balances') = (Total(balances) - balances[u]) + balances'[u]
    BY <1>1, <1>7, SupplyChanges
  <2>2. balances[u] \in Nat /\ balances'[u] = balances[u] + amount
    BY <1>1, <1>4
  <2>. QED  BY <1>1, <1>4, <2>1, <2>2
<1>. QED  BY <1>4, <1>9, <1>10 DEF CoveredInv

LEMMA WithdrawCovered ==
    ASSUME UnipoolAssumption, IInv, CoveredInv,
           NEW u \in Users, NEW amount \in Amounts, withdraw(u, amount)
    PROVE  CoveredInv'
<1>. DEFINE k == Updated(clock, totalSupply)
<1>1. /\ TypeOK /\ RunningClock(clock) /\ amount \in Nat /\ totalSupply \in Nat \ {0}
      /\ balances \in [Users -> Nat] /\ rewards \in [Users -> Nat] /\ held \in Nat
      /\ paidPerToken \in [Users -> Nat]
      /\ NotPaidBeyond(Users, paidPerToken, clock.perToken)
      /\ totalSupply = Total(balances)
      /\ Funded(clock, rewardRate, balances, paidPerToken, rewards, held)
  BY DEF withdraw, CoveredInv, IInv, TypeOK, PeriodIsKept, RunningClock, NotPaidBeyond,
         UnipoolAssumption
<1>2. RunningClock(k) /\ k.perToken >= clock.perToken
  BY <1>1, UpdatedClock
<1>3. Funded(k, rewardRate, balances, paidPerToken, rewards, held)
  <2>1. clock \in Clocks /\ clock.last <= now /\ clock.last <= clock.finish
    BY <1>1 DEF RunningClock
  <2>. QED  BY <1>1, <2>1, FundedUpdated
<1>4. /\ started /\ started' = started /\ clock' = k /\ Account(u, k)
      /\ amount <= balances[u]
      /\ totalSupply' = totalSupply - amount
      /\ balances' = [balances EXCEPT ![u] = @ - amount]
      /\ rewardRate' = rewardRate /\ held' = held
  BY DEF withdraw
<1>. HIDE DEF k
<1>5. k.perToken \in Nat /\ NotPaidBeyond(Users, paidPerToken, k.perToken)
  BY <1>1, <1>2 DEF RunningClock, Clocks, NotPaidBeyond
<1>6. Earned(u, k.perToken, balances[u], rewards[u]) \in Nat
  BY <1>1, <1>5, EarnedNat DEF NotPaidBeyond
<1>7. /\ balances' \in [Users -> Nat] /\ paidPerToken' \in [Users -> Nat]
      /\ rewards' \in [Users -> Nat]
      /\ paidPerToken'[u] = k.perToken
      /\ rewards'[u] = Earned(u, k.perToken, balances[u], rewards[u])
      /\ \A v \in Users \ {u} :
           /\ balances'[v] = balances[v]
           /\ paidPerToken'[v] = paidPerToken[v]
           /\ rewards'[v] = rewards[v]
  BY <1>1, <1>4, <1>5, <1>6 DEF Account
<1>8. Settles(Users, u, k.perToken, balances, paidPerToken, rewards,
              balances', paidPerToken', rewards')
  BY <1>1, <1>5, <1>7 DEF Settles
<1>9. Funded(clock', rewardRate', balances', paidPerToken', rewards', held')
  <2>1. held' = held - 0 /\ rewards'[u] + 0 = Earned(u, k.perToken, balances[u], rewards[u])
    BY <1>1, <1>4, <1>6, <1>7
  <2>2. paidPerToken[u] <= k.perToken /\ held' \in Nat /\ 0 \in Nat
    BY <1>1, <1>4, <1>5 DEF NotPaidBeyond
  <2>. QED  BY <1>2, <1>3, <1>4, <1>8, <2>1, <2>2, SettleCovered
<1>10. totalSupply' = Total(balances')
  <2>1. Total(balances') = (Total(balances) - balances[u]) + balances'[u]
    BY <1>1, <1>7, SupplyChanges
  <2>2. balances[u] \in Nat /\ balances'[u] = balances[u] - amount
    BY <1>1, <1>4
  <2>. QED  BY <1>1, <1>4, <2>1, <2>2
<1>. QED  BY <1>4, <1>9, <1>10 DEF CoveredInv

LEMMA ClaimCovered ==
    ASSUME UnipoolAssumption, IInv, CoveredInv, NEW u \in Users, claimReward(u)
    PROVE  CoveredInv'
<1>. DEFINE k == Updated(Extended(clock, totalSupply), totalSupply)
<1>1. /\ TypeOK /\ RunningClock(clock) /\ totalSupply \in Nat
      /\ balances \in [Users -> Nat] /\ rewards \in [Users -> Nat] /\ held \in Nat
      /\ paidPerToken \in [Users -> Nat]
      /\ NotPaidBeyond(Users, paidPerToken, clock.perToken)
      /\ totalSupply = Total(balances)
      /\ Funded(clock, rewardRate, balances, paidPerToken, rewards, held)
  BY DEF claimReward, CoveredInv, IInv, TypeOK, PeriodIsKept, RunningClock, NotPaidBeyond
<1>2. RunningClock(k) /\ k.perToken >= clock.perToken
  BY <1>1, ExtendedAndUpdatedClock
<1>3. Funded(k, rewardRate, balances, paidPerToken, rewards, held)
  BY <1>1, FundedExtended
<1>. DEFINE reward == Earned(u, k.perToken, balances[u], rewards[u])
<1>4. /\ started /\ started' = started /\ Claim(u, k, reward)
      /\ rewardRate' = rewardRate /\ balances' = balances /\ totalSupply' = totalSupply
  BY DEF claimReward
<1>. HIDE DEF k
<1>5. k.perToken \in Nat /\ NotPaidBeyond(Users, paidPerToken, k.perToken)
  BY <1>1, <1>2 DEF RunningClock, Clocks, NotPaidBeyond
<1>6. reward \in Nat
  BY <1>1, <1>5, EarnedNat DEF NotPaidBeyond
<1>. HIDE DEF reward
<1>7. /\ clock' = k /\ held' = held - reward /\ held' \in Nat
      /\ paidPerToken' \in [Users -> Nat] /\ rewards' \in [Users -> Nat]
      /\ paidPerToken'[u] = k.perToken /\ rewards'[u] = 0
      /\ \A v \in Users \ {u} :
           paidPerToken'[v] = paidPerToken[v] /\ rewards'[v] = rewards[v]
  BY <1>1, <1>4, <1>5, <1>6 DEF Claim
<1>8. Settles(Users, u, k.perToken, balances, paidPerToken, rewards,
              balances', paidPerToken', rewards')
  BY <1>1, <1>4, <1>5, <1>7 DEF Settles
<1>9. Funded(clock', rewardRate', balances', paidPerToken', rewards', held')
  <2>1. rewards'[u] + reward = Earned(u, k.perToken, balances[u], rewards[u])
    BY <1>6, <1>7 DEF reward
  <2>2. paidPerToken[u] <= k.perToken
    BY <1>5 DEF NotPaidBeyond
  <2>. QED  BY <1>2, <1>3, <1>4, <1>6, <1>7, <1>8, <2>1, <2>2, SettleCovered
<1>. QED  BY <1>1, <1>4, <1>9 DEF CoveredInv

\* The withdrawal of everything and the claim: the second update of the clock finds
\* what the first left of it, and an account without tokens.
LEMMA WithdrawAndClaimCovered ==
    ASSUME UnipoolAssumption, IInv, CoveredInv, NEW u \in Users, withdrawAndClaim(u)
    PROVE  CoveredInv'
<1>. DEFINE left   == totalSupply - balances[u]
            k      == Updated(clock, totalSupply)
            j      == Updated(Extended(k, left), left)
            reward == Earned(u, k.perToken, balances[u], rewards[u])
            paid1  == [paidPerToken EXCEPT ![u] = k.perToken]
<1>1. /\ TypeOK /\ RunningClock(clock) /\ totalSupply \in Nat \ {0} /\ rewardRate \in Nat
      /\ balances \in [Users -> Nat] /\ rewards \in [Users -> Nat] /\ held \in Nat
      /\ paidPerToken \in [Users -> Nat]
      /\ NotPaidBeyond(Users, paidPerToken, clock.perToken)
      /\ totalSupply = Total(balances)
      /\ Funded(clock, rewardRate, balances, paidPerToken, rewards, held)
  BY DEF withdrawAndClaim, CoveredInv, IInv, TypeOK, PeriodIsKept, RunningClock,
         NotPaidBeyond
<1>2. RunningClock(k) /\ k.perToken >= clock.perToken
  BY <1>1, UpdatedClock
<1>3. Funded(k, rewardRate, balances, paidPerToken, rewards, held)
  <2>1. clock \in Clocks /\ clock.last <= now /\ clock.last <= clock.finish
    BY <1>1 DEF RunningClock
  <2>. QED  BY <1>1, <2>1, FundedUpdated
<1>4. /\ started /\ started' = started /\ Claim(u, j, reward)
      /\ totalSupply' = left /\ balances' = [balances EXCEPT ![u] = 0]
      /\ rewardRate' = rewardRate
  BY DEF withdrawAndClaim
<1>. HIDE DEF k
<1>5. /\ k.perToken \in Nat /\ NotPaidBeyond(Users, paidPerToken, k.perToken)
      /\ k \in Clocks /\ k.last <= k.finish
  BY <1>1, <1>2 DEF RunningClock, Clocks, NotPaidBeyond
<1>6. reward \in Nat
  BY <1>1, <1>5, EarnedNat DEF NotPaidBeyond
<1>7. /\ balances' \in [Users -> Nat] /\ balances'[u] = 0
      /\ \A v \in Users \ {u} : balances'[v] = balances[v]
      /\ paid1 \in [Users -> Nat] /\ paid1[u] = k.perToken
      /\ \A v \in Users \ {u} : paid1[v] = paidPerToken[v]
  BY <1>1, <1>4, <1>5
<1>. HIDE DEF j, left, reward
<1>8. /\ clock' = j /\ held' = held - reward /\ reward <= held
      /\ rewards' \in [Users -> Nat] /\ rewards'[u] = 0
      /\ \A v \in Users \ {u} : rewards'[v] = rewards[v]
      /\ paidPerToken' = [paidPerToken EXCEPT ![u] = j.perToken]
  BY <1>1, <1>4 DEF Claim
<1>. HIDE DEF paid1
<1>9. Settles(Users, u, k.perToken, balances, paidPerToken, rewards,
              balances', paid1, rewards')
  BY <1>1, <1>5, <1>7, <1>8 DEF Settles
<1>10. Funded(k, rewardRate, balances', paid1, rewards', held - reward)
  <2>1. rewards'[u] + reward
          = (balances[u] * (k.perToken - paidPerToken[u])) \div PRECISION + rewards[u]
    BY <1>6, <1>8 DEF reward, Earned
  <2>. QED  BY <1>1, <1>3, <1>5, <1>6, <1>9, <2>1, FundedAccount
<1>11. left = Total(balances')
  <2>1. Total(balances') = (Total(balances) - balances[u]) + balances'[u]
    BY <1>1, <1>7, SupplyChanges
  <2>2. balances[u] \in Nat
    BY <1>1
  <2>. QED  BY <1>1, <1>7, <2>1, <2>2 DEF left
<1>12. NotPaidBeyond(Users, paid1, k.perToken)
  BY <1>5, <1>7 DEF NotPaidBeyond
<1>13. Funded(j, rewardRate, balances', paid1, rewards', held')
  <2>1. held' \in Nat /\ held' = held - reward
    BY <1>1, <1>6, <1>8
  <2>2. Funded(k, rewardRate, balances', paid1, rewards', held')
    BY <1>10, <2>1
  <2>. QED  BY <1>1, <1>2, <1>7, <1>8, <1>11, <1>12, <2>1, <2>2, FundedExtended DEF j
<1>14. j.perToken \in Nat
  <2>1. left \in Nat
    BY <1>1, <1>7, <1>11, TotalType DEF UnipoolAssumption
  <2>. QED  BY <1>1, <1>2, <2>1, ExtendedAndUpdatedClock DEF j, RunningClock, Clocks
<1>15. Owings(Users, balances', j.perToken, paid1, Scaled(rewards'))
         = Owings(Users, balances', j.perToken, paidPerToken', Scaled(rewards'))
  <2>1. ASSUME NEW v \in Users
        PROVE  balances'[v] * (j.perToken - paid1[v])
                 = balances'[v] * (j.perToken - paidPerToken'[v])
    <3>1. CASE v = u
      <4>1. j.perToken - paid1[u] \in Int /\ j.perToken - paidPerToken'[u] \in Int
        BY <1>1, <1>7, <1>8, <1>14
      <4>. QED  BY <1>7, <3>1, <4>1
    <3>2. CASE v # u
      BY <1>1, <1>7, <1>8, <3>2
    <3>. QED  BY <3>1, <3>2
  <2>. QED  BY <2>1 DEF Owings
<1>16. Funded(clock', rewardRate', balances', paidPerToken', rewards', held')
  BY <1>4, <1>8, <1>13, <1>15 DEF Funded
<1>. QED  BY <1>4, <1>11, <1>16 DEF CoveredInv

LEMMA InitCovered == UnipoolAssumption /\ Init => CoveredInv
<1>. SUFFICES ASSUME UnipoolAssumption, Init PROVE CoveredInv
  OBVIOUS
<1>1. /\ totalSupply = 0 /\ ~started
      /\ balances \in [Users -> Nat] /\ \A u \in Users : balances[u] = 0
      /\ \A u \in Users : rewards[u] = 0
  BY DEF Init
<1>2. Total(balances) = 0
  BY <1>1, TotalZero
<1>. QED  BY <1>1, <1>2 DEF CoveredInv

LEMMA NextCovered == UnipoolAssumption /\ IInv /\ CoveredInv /\ [Next]_vars => CoveredInv'
<1>. SUFFICES ASSUME UnipoolAssumption, IInv, CoveredInv, [Next]_vars PROVE CoveredInv'
  OBVIOUS
<1>1. ASSUME setParams PROVE CoveredInv'
  BY <1>1, SetParamsCovered
<1>2. ASSUME NEW u \in Users, NEW amount \in Amounts, stake(u, amount) PROVE CoveredInv'
  BY <1>2, StakeCovered
<1>3. ASSUME NEW u \in Users, NEW amount \in Amounts, withdraw(u, amount) PROVE CoveredInv'
  BY <1>3, WithdrawCovered
<1>4. ASSUME NEW u \in Users, claimReward(u) PROVE CoveredInv'
  BY <1>4, ClaimCovered
<1>5. ASSUME NEW u \in Users, withdrawAndClaim(u) PROVE CoveredInv'
  BY <1>5, WithdrawAndClaimCovered
<1>6. ASSUME Tick PROVE CoveredInv'
  BY <1>6 DEF Tick, CoveredInv, Funded, Owings, Scaled
<1>7. ASSUME UNCHANGED vars PROVE CoveredInv'
  BY <1>7 DEF vars, CoveredInv, Funded, Owings, Scaled
<1>. QED  BY <1>1, <1>2, <1>3, <1>4, <1>5, <1>6, <1>7 DEF Next

\* What is held covers what could be claimed now, since the next update of the clock
\* will find it covered before the divisions.
LEMMA CoveredImplies ==
    ASSUME UnipoolAssumption, IInv, CoveredInv
    PROVE  RewardsCovered
<1>. SUFFICES ASSUME started
              PROVE  Claimable + rewardRate * (clock.finish - lastTimeRewardApplicable(clock))
                       <= held
  BY DEF RewardsCovered
<1>. DEFINE perToken == rewardPerToken(clock, totalSupply)
            last     == lastTimeRewardApplicable(clock)
            owings   == Owings(Users, balances, perToken, paidPerToken, Scaled(rewards))
            payable  == [u \in Users |-> earned(u)]
            rest     == rewardRate * (clock.finish - last)
<1>1. /\ TypeOK /\ clock \in Clocks /\ clock.last <= now /\ clock.last <= clock.finish
      /\ balances \in [Users -> Nat] /\ rewards \in [Users -> Nat] /\ held \in Nat
      /\ paidPerToken \in [Users -> Nat] /\ totalSupply \in Nat
      /\ NotPaidBeyond(Users, paidPerToken, clock.perToken)
      /\ totalSupply = Total(balances)
      /\ Funded(clock, rewardRate, balances, paidPerToken, rewards, held)
      /\ PRECISION \in Nat \ {0} /\ IsFiniteSet(Users) /\ rewardRate \in Nat /\ now \in Nat
  BY DEF CoveredInv, IInv, TypeOK, PeriodIsKept, NotPaidBeyond, UnipoolAssumption
<1>2. perToken \in Nat /\ perToken >= clock.perToken
  BY <1>1, PerTokenGrows
<1>3. Total(owings) + PRECISION * rest <= PRECISION * held
  <2>1. Funded(Updated(clock, totalSupply), rewardRate, balances, paidPerToken, rewards, held)
    BY <1>1, FundedUpdated
  <2>2. /\ Updated(clock, totalSupply).perToken = perToken
        /\ Updated(clock, totalSupply).finish = clock.finish
        /\ Updated(clock, totalSupply).last = last
    BY DEF Updated
  <2>. QED  BY <2>1, <2>2 DEF Funded
<1>4. rest \in Nat
  <2>1. clock.finish - last \in Nat
    BY <1>1 DEF lastTimeRewardApplicable, MinOf, Clocks
  <2>. QED  BY <1>1, <2>1, TimesNat
<1>. HIDE DEF perToken, last, rest
<1>5. /\ NotPaidBeyond(Users, paidPerToken, perToken)
      /\ Scaled(rewards) \in [Users -> Nat]
      /\ \A u \in Users : Scaled(rewards)[u] = PRECISION * rewards[u]
  BY <1>1, <1>2, ScaledType DEF NotPaidBeyond, Clocks
<1>6. owings \in [Users -> Nat]
  BY <1>1, <1>2, <1>5, OwingsType
<1>7. ASSUME NEW u \in Users
      PROVE  payable[u] \in Nat /\ PRECISION * payable[u] <= owings[u]
  <2>. DEFINE gain == balances[u] * (perToken - paidPerToken[u])
  <2>1. payable[u] = gain \div PRECISION + rewards[u]
    BY DEF earned, Earned, perToken
  <2>2. owings[u] = gain + Scaled(rewards)[u]
    BY DEF Owings
  <2>3. gain \in Nat
    <3>1. perToken - paidPerToken[u] \in Nat /\ balances[u] \in Nat
      BY <1>1, <1>2, <1>5 DEF NotPaidBeyond
    <3>. QED  BY <3>1, TimesNat
  <2>. HIDE DEF gain, owings, payable
  <2>4. gain \div PRECISION \in Nat /\ PRECISION * (gain \div PRECISION) <= gain
    BY <1>1, <2>3, DivTimes
  <2>5. rewards[u] \in Nat /\ Scaled(rewards)[u] = PRECISION * rewards[u]
    BY <1>1, <1>5
  <2>6. PRECISION * (gain \div PRECISION + rewards[u])
          = PRECISION * (gain \div PRECISION) + PRECISION * rewards[u]
    BY <1>1, <2>4, <2>5, TimesOver
  <2>7. PRECISION * (gain \div PRECISION) \in Int /\ PRECISION * rewards[u] \in Int
    BY <1>1, <2>4, <2>5
  <2>. QED  BY <2>1, <2>2, <2>3, <2>4, <2>5, <2>6, <2>7
<1>8. payable \in [Users -> Nat]
  BY <1>7
<1>. HIDE DEF owings, payable
<1>9. PRECISION * Total(payable) <= Total(owings)
  BY <1>1, <1>6, <1>7, <1>8, PayableCovered
<1>10. Total(payable) \in Nat /\ Total(owings) \in Nat
  BY <1>1, <1>6, <1>8, TotalType
<1>11. PRECISION * (Total(payable) + rest) <= PRECISION * held
  <2>1. PRECISION * (Total(payable) + rest) = PRECISION * Total(payable) + PRECISION * rest
    BY <1>1, <1>4, <1>10, TimesOver
  <2>2. PRECISION * Total(payable) \in Int /\ PRECISION * rest \in Int /\ PRECISION * held \in Int
    BY <1>1, <1>4, <1>10
  <2>. QED  BY <1>3, <1>9, <1>10, <2>1, <2>2
<1>12. Total(payable) + rest <= held
  <2>1. Total(payable) + rest \in Nat
    BY <1>4, <1>10
  <2>. QED  BY <1>1, <1>11, <2>1, CancelTimes
<1>. QED  BY <1>12 DEF Claimable, payable, rest, last

\* The contract holds what its users can claim, and what the rest of the program pays.
THEOREM RewardsAreCovered == Spec => []RewardsCovered
<1>1. Init => IInv /\ CoveredInv
  BY InitIInv, InitCovered, UnipoolAssumption
<1>2. IInv /\ CoveredInv /\ [Next]_vars => (IInv /\ CoveredInv)'
  BY NextIInv, NextCovered, UnipoolAssumption
<1>3. IInv /\ CoveredInv => RewardsCovered
  BY CoveredImplies, UnipoolAssumption
<1>. QED  BY <1>1, <1>2, <1>3, PTL DEF Spec

-----------------------------------------------------------------------------
(* The fees.                                                               *)

FeesTypeOK ==
    /\ feeTime \in Nat /\ lastFeeOperationTime \in 0..feeTime
    /\ baseRate \in 0..DECIMAL_PRECISION
    /\ stakes \in [Stakers -> Nat] /\ totalProtocolTokenStaked \in Nat
    /\ F \in [Tokens -> Nat] /\ unallocated \in [Tokens -> Nat] /\ fees \in [Tokens -> Nat]
    /\ snapshots \in [Stakers -> [Tokens -> Nat]]
    /\ \A u \in Stakers, token \in Tokens : snapshots[u][token] <= F[token]

\* Nothing is kept for a staker: every operation sends the gains.
NoneKept == [u \in Stakers |-> 0]

SnapshotsOf(snaps, token) == [u \in Stakers |-> snaps[u][token]]

\* What is held of a token covers what the stakers are owed of it, before the division
\* by DECIMAL_PRECISION, and what nobody earned.
TokenFunded(units, index, paid, aside, amount) ==
    Total(Owings(Stakers, units, index, paid, NoneKept)) + DECIMAL_PRECISION * aside
      <= DECIMAL_PRECISION * amount

FeesFunded ==
    /\ totalProtocolTokenStaked = Total(stakes)
    /\ \A token \in Tokens :
          TokenFunded(stakes, F[token], SnapshotsOf(snapshots, token),
                      unallocated[token], fees[token])

FeesInv == FeesTypeOK /\ FeesFunded

\* The rate decays, by a factor that is at most 1.
LEMMA DecayedRate ==
    ASSUME FeesAssumption, FeesTypeOK
    PROVE  calcDecayedBaseRate \in 0..baseRate
<1>. DEFINE factor == decPow(MINUTE_DECAY_FACTOR, minutesPassedSinceLastFeeOp)
            d      == DECIMAL_PRECISION
<1>1. d \in Nat \ {0} /\ baseRate \in Nat /\ MINUTE_DECAY_FACTOR \in 0..d
  BY DEF FeesAssumption, FeesTypeOK
<1>2. minutesPassedSinceLastFeeOp \in Nat
  <2>1. feeTime - lastFeeOperationTime \in Nat /\ SECONDS_IN_ONE_MINUTE \in Nat \ {0}
    BY DEF FeesTypeOK, FeesAssumption
  <2>. QED  BY <2>1, DivNat DEF minutesPassedSinceLastFeeOp, TimePassed
<1>3. factor \in 0..d
  BY <1>1, <1>2, DecPowBounds
<1>4. calcDecayedBaseRate = (baseRate * factor) \div d
  BY DEF calcDecayedBaseRate
<1>. HIDE DEF factor, d
<1>5. baseRate * factor \in Nat
  BY <1>1, <1>3
<1>6. baseRate * factor <= baseRate * d
  BY <1>1, <1>3
<1>. DEFINE q == (baseRate * factor) \div d
<1>7. q \in Nat /\ d * q <= baseRate * factor
  BY <1>1, <1>5, DivTimes
<1>. HIDE DEF q
<1>8. d * q <= d * baseRate
  <2>1. baseRate * d = d * baseRate /\ d * baseRate \in Int /\ d * q \in Int
    BY <1>1, <1>7
  <2>. QED  BY <1>5, <1>6, <1>7, <2>1
<1>9. q <= baseRate
  BY <1>1, <1>7, <1>8, CancelTimes
<1>. QED  BY <1>1, <1>4, <1>7, <1>9 DEF q

LEMMA InitFeesInv == FeesAssumption /\ FeesInit => FeesInv
<1>. SUFFICES ASSUME FeesAssumption, FeesInit PROVE FeesInv
  OBVIOUS
<1>1. FeesTypeOK
  BY DEF FeesAssumption, FeesInit, FeesTypeOK
<1>2. stakes \in [Stakers -> Nat] /\ \A u \in Stakers : stakes[u] = 0
  BY DEF FeesInit
<1>3. totalProtocolTokenStaked = Total(stakes)
  BY <1>2, TotalZero DEF FeesInit
<1>4. ASSUME NEW token \in Tokens
      PROVE  TokenFunded(stakes, F[token], SnapshotsOf(snapshots, token),
                         unallocated[token], fees[token])
  <2>. DEFINE owings == Owings(Stakers, stakes, F[token], SnapshotsOf(snapshots, token), NoneKept)
  <2>1. owings \in [Stakers -> Nat] /\ \A u \in Stakers : owings[u] = 0
    BY DEF FeesInit, Owings, SnapshotsOf, NoneKept
  <2>. HIDE DEF owings
  <2>2. Total(owings) = 0
    BY <2>1, TotalZero
  <2>3. unallocated[token] = 0 /\ fees[token] = 0 /\ DECIMAL_PRECISION \in Nat
    BY DEF FeesInit, FeesAssumption
  <2>. QED  BY <2>2, <2>3 DEF TokenFunded, owings
<1>. QED  BY <1>1, <1>3, <1>4 DEF FeesInv, FeesFunded

\* A fee is shared among those who stake, and rounded down for each unit, or is kept
\* aside while nobody does.
LEMMA CollectFeeFunded ==
    ASSUME FeesAssumption, FeesInv, NEW token \in Tokens, NEW fee \in Nat,
           CollectFee(token, fee)
    PROVE  /\ FeesFunded'
           /\ F' \in [Tokens -> Nat] /\ unallocated' \in [Tokens -> Nat]
           /\ fees' \in [Tokens -> Nat]
           /\ \A t \in Tokens : F[t] <= F'[t]
<1>. DEFINE total == totalProtocolTokenStaked
            d     == DECIMAL_PRECISION
            rise  == IF total > 0 THEN (fee * d) \div total ELSE 0
            aside == IF total > 0 THEN 0 ELSE fee
<1>1. /\ d \in Nat \ {0} /\ total \in Nat /\ IsFiniteSet(Stakers)
      /\ F \in [Tokens -> Nat] /\ unallocated \in [Tokens -> Nat] /\ fees \in [Tokens -> Nat]
      /\ stakes \in [Stakers -> Nat] /\ snapshots \in [Stakers -> [Tokens -> Nat]]
  BY DEF FeesAssumption, FeesInv, FeesTypeOK
<1>2. rise \in Nat /\ aside \in Nat /\ rise * total + d * aside <= d * fee
  <2>. HIDE DEF total, d
  <2>1. fee * d \in Nat /\ d * fee = fee * d
    BY <1>1, TimesNat
  <2>2. CASE total > 0
    <3>. DEFINE n == fee * d
                q == n \div total
    <3>1. rise = q /\ aside = 0
      BY <2>2
    <3>. HIDE DEF n
    <3>2. q \in Nat /\ q * total <= n
      <4>1. n \in Nat /\ total \in Nat \ {0}
        BY <1>1, <2>1, <2>2 DEF n
      <4>. QED  BY <4>1, DivTimes
    <3>. HIDE DEF rise, aside, q
    <3>3. q * total \in Int
      BY <1>1, <3>2
    <3>. QED  BY <1>1, <2>1, <3>1, <3>2, <3>3 DEF n
  <2>3. CASE ~ (total > 0)
    BY <1>1, <2>1, <2>3
  <2>. QED  BY <2>2, <2>3
<1>3. /\ fees' = [fees EXCEPT ![token] = @ + fee]
      /\ F' = [F EXCEPT ![token] = @ + rise]
      /\ unallocated' = [unallocated EXCEPT ![token] = @ + aside]
      /\ UNCHANGED <<stakes, totalProtocolTokenStaked, snapshots>>
  <2>1. CASE total > 0
    BY <1>1, <2>1 DEF CollectFee
  <2>2. CASE ~ (total > 0)
    BY <1>1, <2>2 DEF CollectFee
  <2>. QED  BY <2>1, <2>2
<1>. HIDE DEF total, d, rise, aside
<1>4. /\ F' \in [Tokens -> Nat] /\ unallocated' \in [Tokens -> Nat]
      /\ fees' \in [Tokens -> Nat]
      /\ \A t \in Tokens : F[t] <= F'[t]
  BY <1>1, <1>2, <1>3
<1>5. ASSUME NEW t \in Tokens
      PROVE  TokenFunded(stakes, F'[t], SnapshotsOf(snapshots, t), unallocated'[t], fees'[t])
  <2>. DEFINE index == F[t]
              paid  == SnapshotsOf(snapshots, t)
              owed  == Total(Owings(Stakers, stakes, index, paid, NoneKept))
  <2>1. TokenFunded(stakes, index, paid, unallocated[t], fees[t])
    BY DEF FeesInv, FeesFunded
  <2>2. CASE t # token
    <3>1. F'[t] = F[t] /\ unallocated'[t] = unallocated[t] /\ fees'[t] = fees[t]
      BY <1>1, <1>3, <2>2
    <3>. QED  BY <2>1, <3>1
  <2>3. CASE t = token
    <3>1. /\ F'[t] = index + rise /\ unallocated'[t] = unallocated[t] + aside
          /\ fees'[t] = fees[t] + fee /\ index \in Nat
          /\ unallocated[t] \in Nat /\ fees[t] \in Nat
      BY <1>1, <1>3, <2>3
    <3>2. /\ paid \in [Stakers -> Nat] /\ NoneKept \in [Stakers -> Nat]
          /\ NotPaidBeyond(Stakers, paid, index)
      BY <1>1 DEF SnapshotsOf, NoneKept, NotPaidBeyond, FeesInv, FeesTypeOK
    <3>. HIDE DEF index, paid
    <3>3. Total(Owings(Stakers, stakes, index + rise, paid, NoneKept)) = owed + rise * total
      <4>1. Total(Owings(Stakers, stakes, index + rise, paid, NoneKept))
              = owed + rise * Total(stakes)
        <5>1. /\ IsFiniteSet(Stakers) /\ stakes \in [Stakers -> Nat]
              /\ index \in Nat /\ rise \in Nat
          BY <1>1, <1>2, <3>1
        <5>. QED  BY <3>2, <5>1, OwingsGrow
      <4>2. total = Total(stakes)
        BY DEF FeesInv, FeesFunded, total
      <4>. QED  BY <4>1, <4>2
    <3>4. owed \in Nat
      <4>1. Owings(Stakers, stakes, index, paid, NoneKept) \in [Stakers -> Nat]
        BY <1>1, <3>1, <3>2, OwingsType
      <4>. QED  BY <1>1, <4>1, TotalType
    <3>5. owed + d * unallocated[t] <= d * fees[t]
      BY <2>1 DEF TokenFunded, d
    <3>. HIDE DEF owed
    <3>6. /\ d * (unallocated[t] + aside) = d * unallocated[t] + d * aside
          /\ d * (fees[t] + fee) = d * fees[t] + d * fee
      BY <1>1, <1>2, <3>1, TimesOver
    <3>7. /\ d * unallocated[t] \in Int /\ d * aside \in Int /\ d * fees[t] \in Int
          /\ d * fee \in Int /\ rise * total \in Int
      BY <1>1, <1>2, <3>1
    <3>8. (owed + rise * total) + d * (unallocated[t] + aside) <= d * (fees[t] + fee)
      BY <1>2, <3>4, <3>5, <3>6, <3>7
    <3>. QED  BY <3>1, <3>3, <3>8 DEF TokenFunded, index, paid, d
  <2>. QED  BY <2>2, <2>3
<1>6. totalProtocolTokenStaked' = Total(stakes')
  BY <1>3 DEF FeesInv, FeesFunded
<1>. QED  BY <1>3, <1>4, <1>5, <1>6 DEF FeesFunded

\* The gain of a staker is sent, rounded down, and its stake may change: what is left
\* covers what the stakers are then owed.
LEMMA TokenSettled ==
    ASSUME FeesAssumption, NEW u \in Stakers, NEW index \in Nat, NEW units, NEW paid,
           NEW units2, NEW paid2, NEW aside \in Nat, NEW amount \in Nat,
           Settles(Stakers, u, index, units, paid, NoneKept, units2, paid2, NoneKept),
           NEW gain \in Nat, gain = units[u] * (index - paid[u]),
           TokenFunded(units, index, paid, aside, amount)
    PROVE  TokenFunded(units2, index, paid2, aside, amount - gain \div DECIMAL_PRECISION)
<1>. DEFINE owed == Total(Owings(Stakers, units, index, paid, NoneKept))
            d    == DECIMAL_PRECISION
            q    == gain \div d
<1>1. IsFiniteSet(Stakers) /\ d \in Nat \ {0} /\ d * aside \in Nat
  BY DEF FeesAssumption
<1>2. NoneKept[u] = 0
  BY DEF NoneKept
<1>3. /\ Total(Owings(Stakers, units2, index, paid2, NoneKept))
           = (owed - Owings(Stakers, units, index, paid, NoneKept)[u]) + NoneKept[u]
      /\ owed \in Nat
      /\ Owings(Stakers, units, index, paid, NoneKept)[u] <= owed
  <2>. HIDE DEF NoneKept
  <2>. QED  BY <1>1, OwingsSettled
<1>4. Owings(Stakers, units, index, paid, NoneKept)[u] = gain
  BY <1>2 DEF Owings
<1>5. owed + d * aside <= d * amount
  BY DEF TokenFunded
<1>6. q \in Nat /\ d * q <= gain
  BY <1>1, DivTimes
<1>. HIDE DEF owed, d, q
<1>7. d * (amount - q) = d * amount - d * q /\ d * amount \in Int /\ d * q \in Int
  BY <1>1, <1>6, TimesOver
<1>8. (owed - gain) + d * aside <= d * (amount - q)
  BY <1>1, <1>3, <1>4, <1>5, <1>6, <1>7
<1>9. Total(Owings(Stakers, units2, index, paid2, NoneKept)) = owed - gain
  BY <1>2, <1>3, <1>4
<1>. QED  BY <1>8, <1>9 DEF TokenFunded, d, q

\* What one changed stake does to the sum of the stakes.
LEMMA StakesChange ==
    ASSUME FeesAssumption, NEW u \in Stakers, NEW units \in [Stakers -> Nat],
           NEW units2 \in [Stakers -> Nat], \A v \in Stakers \ {u} : units2[v] = units[v]
    PROVE  /\ Total(units2) = (Total(units) - units[u]) + units2[u]
           /\ Total(units2) \in Nat
           /\ units[u] <= Total(units)
<1>1. IsFiniteSet(Stakers)
  BY DEF FeesAssumption
<1>. QED  BY <1>1, TotalChange, TotalType

\* The gains of a staker are sent, and its stake becomes staked.
LEMMA SendGainsFunded ==
    ASSUME FeesAssumption, FeesInv, NEW u \in Stakers, NEW staked \in Nat, SendGains(u),
           stakes' = [stakes EXCEPT ![u] = staked],
           totalProtocolTokenStaked' = (totalProtocolTokenStaked - stakes[u]) + staked,
           UNCHANGED <<F, unallocated, rateVars>>
    PROVE  FeesInv'
<1>1. /\ DECIMAL_PRECISION \in Nat \ {0} /\ IsFiniteSet(Stakers)
      /\ F \in [Tokens -> Nat] /\ unallocated \in [Tokens -> Nat] /\ fees \in [Tokens -> Nat]
      /\ stakes \in [Stakers -> Nat] /\ snapshots \in [Stakers -> [Tokens -> Nat]]
      /\ \A v \in Stakers, token \in Tokens : snapshots[v][token] <= F[token]
  BY DEF FeesAssumption, FeesInv, FeesTypeOK
<1>2. /\ snapshots' = [snapshots EXCEPT ![u] = F]
      /\ fees' = [token \in Tokens |-> fees[token] - PendingGain(u, token)]
      /\ \A token \in Tokens : PendingGain(u, token) <= fees[token]
  BY DEF SendGains, UserSnapshot
<1>3. ASSUME NEW token \in Tokens
      PROVE  /\ stakes[u] * (F[token] - snapshots[u][token]) \in Nat
             /\ PendingGain(u, token) \in Nat
  <2>1. stakes[u] \in Nat /\ F[token] - snapshots[u][token] \in Nat
    BY <1>1
  <2>2. stakes[u] * (F[token] - snapshots[u][token]) \in Nat
    BY <2>1, TimesNat
  <2>. QED  BY <1>1, <2>2, DivNat DEF PendingGain
<1>4. \A token \in Tokens : fees[token] - PendingGain(u, token) \in Nat
  BY <1>1, <1>2, <1>3
<1>5. fees' \in [Tokens -> Nat]
  BY <1>2, <1>4
<1>6. stakes' \in [Stakers -> Nat] /\ stakes'[u] = staked
      /\ \A v \in Stakers \ {u} : stakes'[v] = stakes[v]
  BY <1>1
<1>7. /\ snapshots' \in [Stakers -> [Tokens -> Nat]] /\ snapshots'[u] = F
      /\ \A v \in Stakers \ {u} : snapshots'[v] = snapshots[v]
  BY <1>1, <1>2
<1>8. /\ Total(stakes') = (Total(stakes) - stakes[u]) + stakes'[u]
      /\ Total(stakes') \in Nat
  BY <1>1, <1>6, StakesChange
<1>9. totalProtocolTokenStaked' = Total(stakes')
  BY <1>6, <1>8 DEF FeesInv, FeesFunded
<1>10. FeesTypeOK'
  <2>1. \A v \in Stakers, token \in Tokens : snapshots'[v][token] <= F[token]
    BY <1>1, <1>7
  <2>. QED  BY <1>5, <1>6, <1>7, <1>8, <1>9, <2>1 DEF FeesInv, FeesTypeOK, rateVars
<1>11. ASSUME NEW token \in Tokens
       PROVE  TokenFunded(stakes', F[token], SnapshotsOf(snapshots', token),
                          unallocated[token], fees'[token])
  <2>. DEFINE index == F[token]
              paid  == SnapshotsOf(snapshots, token)
              paid2 == SnapshotsOf(snapshots', token)
              gain  == stakes[u] * (index - paid[u])
  <2>1. /\ paid \in [Stakers -> Nat] /\ paid2 \in [Stakers -> Nat] /\ paid2[u] = index
        /\ NoneKept \in [Stakers -> Nat] /\ NotPaidBeyond(Stakers, paid, index)
        /\ \A v \in Stakers \ {u} : paid2[v] = paid[v]
    BY <1>1, <1>7 DEF SnapshotsOf, NoneKept, NotPaidBeyond
  <2>2. Settles(Stakers, u, index, stakes, paid, NoneKept, stakes', paid2, NoneKept)
    <3>. HIDE DEF index, paid, paid2
    <3>. QED  BY <1>1, <1>6, <2>1 DEF Settles
  <2>3. gain \in Nat /\ PendingGain(u, token) = gain \div DECIMAL_PRECISION
    BY <1>3 DEF SnapshotsOf, PendingGain
  <2>4. TokenFunded(stakes, index, paid, unallocated[token], fees[token])
    BY DEF FeesInv, FeesFunded
  <2>5. index \in Nat /\ unallocated[token] \in Nat /\ fees[token] \in Nat
    BY <1>1
  <2>6. TokenFunded(stakes', index, paid2, unallocated[token],
                    fees[token] - gain \div DECIMAL_PRECISION)
    <3>. HIDE DEF index, paid, paid2
    <3>. QED  BY <2>2, <2>3, <2>4, <2>5, TokenSettled
  <2>7. fees'[token] = fees[token] - gain \div DECIMAL_PRECISION
    BY <1>2, <2>3
  <2>. QED  BY <2>6, <2>7
<1>. QED  BY <1>9, <1>10, <1>11 DEF FeesInv, FeesFunded

\* The time of the last operation moves no further than now.
LEMMA LastFeeOpTimeType ==
    ASSUME FeesTypeOK
    PROVE  LastFeeOpTime \in 0..feeTime
  BY DEF FeesTypeOK, LastFeeOpTime

\* A fee is a natural number, at any rate.
LEMMA FeeNat ==
    ASSUME FeesAssumption, NEW rate \in Nat, NEW amount \in Nat
    PROVE  (rate * amount) \div DECIMAL_PRECISION \in Nat
<1>1. rate * amount \in Nat
  BY TimesNat
<1>. QED  BY <1>1, DivNat DEF FeesAssumption

\* An operation that pays a fee in a token and leaves a rate that is at most 1.
LEMMA FeeOperationFunded ==
    ASSUME FeesAssumption, FeesInv, FeeOperation, NEW token \in Tokens, NEW fee \in Nat,
           CollectFee(token, fee), baseRate' \in 0..DECIMAL_PRECISION
    PROVE  FeesInv'
<1>1. /\ FeesFunded'
      /\ F' \in [Tokens -> Nat] /\ unallocated' \in [Tokens -> Nat]
      /\ fees' \in [Tokens -> Nat]
      /\ \A t \in Tokens : F[t] <= F'[t]
  BY CollectFeeFunded
<1>2. /\ feeTime' = feeTime /\ lastFeeOperationTime' \in 0..feeTime
      /\ UNCHANGED <<stakes, totalProtocolTokenStaked, snapshots>>
  BY LastFeeOpTimeType DEF FeeOperation, CollectFee, FeesInv
<1>3. \A u \in Stakers, t \in Tokens : snapshots[u][t] <= F'[t]
  BY <1>1 DEF FeesInv, FeesTypeOK
<1>. QED  BY <1>1, <1>2, <1>3 DEF FeesInv, FeesTypeOK

\* The owner takes of a token what nobody earned.
LEMMA WithdrawUnallocatedFunded ==
    ASSUME FeesAssumption, FeesInv, NEW token \in Tokens, WithdrawUnallocated(token)
    PROVE  FeesInv'
<1>. DEFINE d == DECIMAL_PRECISION
<1>1. /\ d \in Nat \ {0} /\ IsFiniteSet(Stakers)
      /\ unallocated \in [Tokens -> Nat] /\ fees \in [Tokens -> Nat]
  BY DEF FeesAssumption, FeesInv, FeesTypeOK
<1>2. /\ unallocated[token] <= fees[token]
      /\ fees' = [fees EXCEPT ![token] = @ - unallocated[token]]
      /\ unallocated' = [unallocated EXCEPT ![token] = 0]
      /\ UNCHANGED <<stakes, totalProtocolTokenStaked, F, snapshots, rateVars>>
  BY DEF WithdrawUnallocated
<1>3. fees' \in [Tokens -> Nat] /\ unallocated' \in [Tokens -> Nat]
  BY <1>1, <1>2
<1>4. FeesTypeOK'
  BY <1>2, <1>3 DEF FeesInv, FeesTypeOK, rateVars
<1>5. ASSUME NEW t \in Tokens
      PROVE  TokenFunded(stakes, F[t], SnapshotsOf(snapshots, t), unallocated'[t], fees'[t])
  <2>. DEFINE owed == Total(Owings(Stakers, stakes, F[t], SnapshotsOf(snapshots, t), NoneKept))
  <2>1. TokenFunded(stakes, F[t], SnapshotsOf(snapshots, t), unallocated[t], fees[t])
    BY DEF FeesInv, FeesFunded
  <2>2. CASE t # token
    BY <1>1, <1>2, <2>1, <2>2
  <2>3. CASE t = token
    <3>1. unallocated'[t] = 0 /\ fees'[t] = fees[t] - unallocated[t]
      BY <1>1, <1>2, <2>3
    <3>2. owed + d * unallocated[t] <= d * fees[t]
      BY <2>1 DEF TokenFunded
    <3>3. owed \in Nat
      <4>1. /\ stakes \in [Stakers -> Nat] /\ F[t] \in Nat
            /\ SnapshotsOf(snapshots, t) \in [Stakers -> Nat]
            /\ NoneKept \in [Stakers -> Nat]
            /\ NotPaidBeyond(Stakers, SnapshotsOf(snapshots, t), F[t])
        BY DEF FeesInv, FeesTypeOK, SnapshotsOf, NoneKept, NotPaidBeyond
      <4>2. Owings(Stakers, stakes, F[t], SnapshotsOf(snapshots, t), NoneKept)
              \in [Stakers -> Nat]
        BY <4>1, OwingsType
      <4>. QED  BY <1>1, <4>2, TotalType
    <3>4. unallocated[t] \in Nat /\ fees[t] \in Nat
      BY <1>1
    <3>. HIDE DEF owed, d
    <3>5. /\ d * (fees[t] - unallocated[t]) = d * fees[t] - d * unallocated[t]
          /\ d * fees[t] \in Int /\ d * unallocated[t] \in Int /\ d * 0 = 0
      BY <1>1, <3>4, TimesOver
    <3>6. owed + d * 0 <= d * (fees[t] - unallocated[t])
      BY <3>2, <3>3, <3>5
    <3>. QED  BY <3>1, <3>6 DEF TokenFunded, owed, d
  <2>. QED  BY <2>2, <2>3
<1>. QED  BY <1>2, <1>4, <1>5 DEF FeesInv, FeesFunded

\* The rate of a borrowing is a natural number, whatever the base rate.
LEMMA BorrowingRateNat ==
    ASSUME FeesAssumption, NEW r \in 0..DECIMAL_PRECISION
    PROVE  calcBorrowingRate(r) \in Nat
<1>1. BORROWING_FEE_FLOOR \in Nat /\ MAX_BORROWING_FEE \in Nat /\ DECIMAL_PRECISION \in Nat
  BY DEF FeesAssumption
<1>. QED  BY <1>1 DEF calcBorrowingRate, AtMost

LEMMA TriggerBorrowingFeeFunded ==
    ASSUME FeesAssumption, FeesInv, NEW amount \in Borrowings, TriggerBorrowingFee(amount)
    PROVE  FeesInv'
<1>. DEFINE rate == calcBorrowingRate(baseRate')
            fee  == (rate * amount) \div DECIMAL_PRECISION
<1>1. baseRate' \in 0..baseRate
  BY DecayedRate DEF TriggerBorrowingFee, FeesInv
<1>2. baseRate' \in 0..DECIMAL_PRECISION
  BY <1>1 DEF FeesInv, FeesTypeOK, FeesAssumption
<1>3. rate \in Nat /\ amount \in Nat
  BY <1>2, BorrowingRateNat DEF FeesAssumption
<1>4. FeeOperation /\ CollectFee("debtToken", fee)
  BY DEF TriggerBorrowingFee
<1>. HIDE DEF rate
<1>5. fee \in Nat
  BY <1>3, FeeNat
<1>. HIDE DEF fee
<1>. QED  BY <1>2, <1>4, <1>5, FeeOperationFunded DEF Tokens

LEMMA RedeemFILFunded ==
    ASSUME FeesAssumption, FeesInv, NEW FILDrawn \in Nat, NEW fraction \in Nat,
           RedeemFIL(FILDrawn, fraction)
    PROVE  FeesInv'
<1>. DEFINE raised == AtMost(calcDecayedBaseRate + fraction \div BETA, DECIMAL_PRECISION)
            rate   == calcRedemptionRate(raised)
            fee    == (rate * FILDrawn) \div DECIMAL_PRECISION
<1>1. calcDecayedBaseRate \in Nat
  <2>1. calcDecayedBaseRate \in 0..baseRate
    BY DecayedRate DEF FeesInv
  <2>. QED  BY <2>1 DEF FeesInv, FeesTypeOK
<1>2. fraction \div BETA \in Nat
  BY DivNat DEF FeesAssumption
<1>3. raised \in 0..DECIMAL_PRECISION
  <2>. DEFINE more == fraction \div BETA
  <2>. HIDE DEF more
  <2>1. more \in Nat
    BY <1>2 DEF more
  <2>2. AtMost(calcDecayedBaseRate + more, DECIMAL_PRECISION) \in 0..DECIMAL_PRECISION
    BY <1>1, <2>1 DEF AtMost, FeesAssumption
  <2>. QED  BY <2>2 DEF more
<1>4. FeeOperation /\ baseRate' = raised /\ CollectFee("FIL", fee)
  BY DEF RedeemFIL
<1>. HIDE DEF raised
<1>5. rate \in Nat
  BY <1>3 DEF calcRedemptionRate, AtMost, FeesAssumption
<1>. HIDE DEF rate
<1>6. fee \in Nat
  BY <1>5, FeeNat
<1>. HIDE DEF fee
<1>. QED  BY <1>3, <1>4, <1>6, FeeOperationFunded DEF Tokens

LEMMA StakeFunded ==
    ASSUME FeesAssumption, FeesInv, NEW u \in Stakers, NEW amount \in StakeAmounts,
           Stake(u, amount)
    PROVE  FeesInv'
<1>. DEFINE staked == stakes[u] + amount
<1>1. stakes[u] \in Nat /\ amount \in Nat /\ totalProtocolTokenStaked \in Nat
  BY DEF FeesInv, FeesTypeOK, FeesAssumption
<1>2. /\ SendGains(u) /\ stakes' = [stakes EXCEPT ![u] = staked]
      /\ totalProtocolTokenStaked' = totalProtocolTokenStaked + amount
      /\ UNCHANGED <<F, unallocated, rateVars>>
  BY DEF Stake
<1>3. totalProtocolTokenStaked + amount = (totalProtocolTokenStaked - stakes[u]) + staked
  BY <1>1
<1>4. staked \in Nat
  BY <1>1
<1>. HIDE DEF staked
<1>. QED  BY <1>2, <1>3, <1>4, SendGainsFunded

LEMMA UnstakeFunded ==
    ASSUME FeesAssumption, FeesInv, NEW u \in Stakers, NEW amount \in StakeAmounts,
           Unstake(u, amount)
    PROVE  FeesInv'
<1>. DEFINE withdrawn == AtMost(amount, stakes[u])
            staked    == stakes[u] - withdrawn
<1>1. stakes[u] \in Nat /\ amount \in Nat /\ totalProtocolTokenStaked \in Nat
  BY DEF FeesInv, FeesTypeOK, FeesAssumption
<1>2. withdrawn \in 0..stakes[u]
  BY <1>1 DEF AtMost
<1>3. /\ SendGains(u) /\ stakes' = [stakes EXCEPT ![u] = staked]
      /\ totalProtocolTokenStaked' = totalProtocolTokenStaked - withdrawn
      /\ UNCHANGED <<F, unallocated, rateVars>>
  BY DEF Unstake
<1>. HIDE DEF withdrawn
<1>4. /\ staked \in Nat
      /\ totalProtocolTokenStaked - withdrawn = (totalProtocolTokenStaked - stakes[u]) + staked
  BY <1>1, <1>2
<1>. HIDE DEF staked
<1>. QED  BY <1>3, <1>4, SendGainsFunded

LEMMA NextFeesInv == FeesAssumption /\ FeesInv /\ [FeesNext]_feeVars => FeesInv'
<1>. SUFFICES ASSUME FeesAssumption, FeesInv, [FeesNext]_feeVars PROVE FeesInv'
  OBVIOUS
<1>1. ASSUME NEW amount \in Borrowings, TriggerBorrowingFee(amount) PROVE FeesInv'
  BY <1>1, TriggerBorrowingFeeFunded
<1>2. ASSUME NEW r \in Redemptions, RedeemFIL(r[1], r[2]) PROVE FeesInv'
  <2>1. r[1] \in Nat /\ r[2] \in Nat
    BY DEF FeesAssumption
  <2>. QED  BY <1>2, <2>1, RedeemFILFunded
<1>3. ASSUME NEW u \in Stakers, NEW amount \in StakeAmounts, Stake(u, amount) PROVE FeesInv'
  BY <1>3, StakeFunded
<1>4. ASSUME NEW u \in Stakers, NEW amount \in StakeAmounts, Unstake(u, amount)
      PROVE  FeesInv'
  BY <1>4, UnstakeFunded
<1>5. ASSUME NEW token \in Tokens, WithdrawUnallocated(token) PROVE FeesInv'
  BY <1>5, WithdrawUnallocatedFunded
<1>6. ASSUME FeeTick PROVE FeesInv'
  BY <1>6 DEF FeeTick, stakeVars, FeesInv, FeesTypeOK, FeesFunded
<1>7. ASSUME UNCHANGED feeVars PROVE FeesInv'
  BY <1>7 DEF feeVars, rateVars, stakeVars, FeesInv, FeesTypeOK, FeesFunded
<1>. QED  BY <1>1, <1>2, <1>3, <1>4, <1>5, <1>6, <1>7 DEF FeesNext

\* What the stakers are owed, rounded down for each, and what nobody earned are held.
LEMMA FundedImplies ==
    ASSUME FeesAssumption, FeesInv
    PROVE  FeesCovered
<1>. SUFFICES ASSUME NEW token \in Tokens
              PROVE  Owed(token) + unallocated[token] <= fees[token]
  BY DEF FeesCovered
<1>. DEFINE d       == DECIMAL_PRECISION
            paid    == SnapshotsOf(snapshots, token)
            owings  == Owings(Stakers, stakes, F[token], paid, NoneKept)
            payable == [u \in Stakers |-> PendingGain(u, token)]
            aside   == unallocated[token]
<1>1. /\ d \in Nat \ {0} /\ IsFiniteSet(Stakers) /\ stakes \in [Stakers -> Nat]
      /\ F[token] \in Nat /\ aside \in Nat /\ fees[token] \in Nat
      /\ paid \in [Stakers -> Nat] /\ NoneKept \in [Stakers -> Nat]
      /\ NotPaidBeyond(Stakers, paid, F[token])
  BY DEF FeesAssumption, FeesInv, FeesTypeOK, SnapshotsOf, NoneKept, NotPaidBeyond
<1>2. owings \in [Stakers -> Nat]
  BY <1>1, OwingsType
<1>3. ASSUME NEW u \in Stakers
      PROVE  payable[u] \in Nat /\ d * payable[u] <= owings[u]
  <2>1. owings[u] \in Nat /\ owings[u] = stakes[u] * (F[token] - snapshots[u][token])
    <3>1. owings[u] = stakes[u] * (F[token] - snapshots[u][token]) + 0
      BY DEF Owings, SnapshotsOf, NoneKept
    <3>2. stakes[u] * (F[token] - snapshots[u][token]) \in Int
      BY DEF FeesInv, FeesTypeOK
    <3>3. owings[u] \in Nat
      <4>. HIDE DEF owings
      <4>. QED  BY <1>2
    <3>. QED  BY <3>1, <3>2, <3>3
  <2>2. payable[u] = owings[u] \div d
    BY <2>1 DEF PendingGain
  <2>. HIDE DEF owings, payable, d
  <2>. QED  BY <1>1, <2>1, <2>2, DivTimes
<1>4. payable \in [Stakers -> Nat]
  BY <1>3
<1>5. Total(owings) + d * aside <= d * fees[token]
  BY DEF FeesInv, FeesFunded, TokenFunded
<1>. HIDE DEF owings, payable, d, aside
<1>6. d * Total(payable) <= Total(owings)
  BY <1>1, <1>2, <1>3, <1>4, PayableCovered
<1>7. Total(payable) \in Nat /\ Total(owings) \in Nat
  BY <1>1, <1>2, <1>4, TotalType
<1>8. Total(payable) + aside <= fees[token]
  <2>1. d * (Total(payable) + aside) = d * Total(payable) + d * aside
    BY <1>1, <1>7, TimesOver
  <2>2. d * Total(payable) \in Int /\ d * aside \in Int /\ d * fees[token] \in Int
    BY <1>1, <1>7
  <2>3. d * (Total(payable) + aside) <= d * fees[token]
    BY <1>5, <1>6, <1>7, <2>1, <2>2
  <2>4. Total(payable) + aside \in Nat
    BY <1>1, <1>7
  <2>. QED  BY <1>1, <2>3, <2>4, CancelTimes
<1>. QED  BY <1>8 DEF Owed, payable, aside

\* Whoever stakes and takes back when, the staking contract holds what all stakers are
\* owed and what nobody earned, in both tokens.
THEOREM FeesAreCovered == FeesSpec => []FeesCovered
<1>1. FeesInit => FeesInv
  BY InitFeesInv, FeesAssumption
<1>2. FeesInv /\ [FeesNext]_feeVars => FeesInv'
  BY NextFeesInv, FeesAssumption
<1>3. FeesInv => FeesCovered
  BY FundedImplies, FeesAssumption
<1>. QED  BY <1>1, <1>2, <1>3, PTL DEF FeesSpec

\* Time never raises the rate, which never exceeds 1, however long it was since the last
\* operation: the assertion on the decayed rate never fails.
THEOREM RateDecays == FeesSpec => []DecayedRateInRange
<1>1. FeesInit => FeesInv
  BY InitFeesInv, FeesAssumption
<1>2. FeesInv /\ [FeesNext]_feeVars => FeesInv'
  BY NextFeesInv, FeesAssumption
<1>3. FeesInv => DecayedRateInRange
  <2>. SUFFICES ASSUME FeesInv PROVE DecayedRateInRange
    OBVIOUS
  <2>1. calcDecayedBaseRate \in 0..baseRate
    BY DecayedRate, FeesAssumption DEF FeesInv
  <2>2. baseRate <= DECIMAL_PRECISION
    BY DEF FeesInv, FeesTypeOK, FeesAssumption
  <2>. QED  BY <2>1, <2>2 DEF DecayedRateInRange
<1>. QED  BY <1>1, <1>2, <1>3, PTL DEF FeesSpec

=============================================================================
