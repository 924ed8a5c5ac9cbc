----------------------------- MODULE LpPoolProofs -----------------------------
(***************************************************************************)
(* Proofs about the liquidity pool, for every set of accounts, every swap  *)
(* fee and every set of inputs.  What holds whatever the protocol's cut is *)
(* set to comes first, with reserves and shares that are integers.  That   *)
(* they never fall below zero is proved next, for a cut that is a part of  *)
(* the swap fee: a greater one, which the contract does not refuse, takes  *)
(* more than the swap brought in.  From it follows that the figures which  *)
(* the liquidity routes show beforehand are those of the contract.         *)
(***************************************************************************)
EXTENDS LiquidityRoutes, ContractLemmas, FiniteSetTheorems, TLAPS

LEMMA ConstantTypes ==
    /\ PoolContract \in Accounts /\ Admin \in Accounts /\ Admin # PoolContract
    /\ Users \subseteq Accounts /\ \A u \in Users : u # PoolContract
    /\ InitialXlm \in [Accounts -> Nat] /\ InitialSxlm \in [Accounts -> Nat]
    /\ BPS_DENOMINATOR = 10000 /\ FeeBps \in 0..10000
    /\ XlmAmounts \subseteq Int /\ SxlmAmounts \subseteq Int /\ LpAmounts \subseteq Int
    /\ ProtocolFees \subseteq Nat
    /\ SentXlm \subseteq Int /\ SentSxlm \subseteq Int
BY LpPoolConstants DEF LpPoolConstants, Users, BPS_DENOMINATOR

TokensInv == xlm \in [Accounts -> Nat] /\ sxlm \in [Accounts -> Nat]
ReservesInv == reserveXlm \in Int /\ reserveSxlm \in Int
SharesInv == totalLp \in Int /\ lpBalance \in [Users -> Int]
FeesInv == protocolFeeBps \in Nat /\ accruedFees \in Int
GivenInv == givenXlm \in Int /\ givenSxlm \in Int

Inv == TokensInv /\ ReservesInv /\ SharesInv /\ FeesInv /\ GivenInv /\ ReservesAreHeld

----------------------------------------------------------------------------
(* Lemmas about the pool's arithmetic. *)

LEMMA IsqrtType == ASSUME NEW n \in Int PROVE isqrt(n) \in Nat
<1>1. IsFiniteSet(1..n)
  BY FS_Interval
<1>2. IsFiniteSet({r \in 1..n : r * r <= n})
  BY <1>1, FS_Subset
<1> QED
  BY <1>2, FS_CardinalityType DEF isqrt

\* The square root of n, rounded down, as a relation.
IsRoot(k, n) == k * k <= n /\ n < (k + 1) * (k + 1)

LEMMA SquareOrder ==
    ASSUME NEW a \in Nat, NEW b \in Nat, a <= b PROVE a * a <= b * b
<1>1. a * a <= a * b /\ a * b <= b * b
  OBVIOUS
<1>2. a * a \in Nat /\ a * b \in Nat /\ b * b \in Nat
  OBVIOUS
<1> QED
  BY <1>1, <1>2

LEMMA RootExists == ASSUME NEW n \in Nat PROVE \E k \in Nat : k <= n /\ IsRoot(k, n)
<1> DEFINE Above == {m \in Nat : n < m * m}
<1>1. n + 1 \in Above
  <2>1. (n + 1) * (n + 1) = n * n + 2 * n + 1 /\ n * n \in Nat
    OBVIOUS
  <2> QED
    BY <2>1
<1>2. PICK m \in Above : \A a \in Above : m <= a
  <2>1. Above \in SUBSET Nat /\ Above # {}
    BY <1>1
  <2> HIDE DEF Above
  <2> QED
    BY <2>1, LeastOf
<1>3. m \in Nat /\ n < m * m /\ m <= n + 1
  BY <1>1, <1>2
<1>4. m # 0
  BY <1>3
<1>5. m - 1 \in Nat /\ m - 1 \notin Above
  <2>1. ~(m <= m - 1)
    BY <1>3
  <2> QED
    BY <1>2, <1>3, <1>4, <2>1
<1>6. (m - 1) * (m - 1) <= n
  <2>1. (m - 1) * (m - 1) \in Nat
    BY <1>5
  <2> QED
    BY <1>5, <2>1
<1>7. PICK k \in Nat : k = m - 1 /\ k + 1 = m
  BY <1>3, <1>5
<1>8. k <= n /\ k * k <= n /\ n < (k + 1) * (k + 1)
  BY <1>3, <1>6, <1>7
<1> QED
  BY <1>8 DEF IsRoot

\* isqrt counts the numbers up to the root.
LEMMA IsqrtIsRoot == ASSUME NEW n \in Nat PROVE isqrt(n) \in 0..n /\ IsRoot(isqrt(n), n)
<1>1. PICK k \in Nat : k <= n /\ IsRoot(k, n)
  BY RootExists
<1>2. {r \in 1..n : r * r <= n} = 1..k
  <2>1. ASSUME NEW r \in 1..n, r * r <= n PROVE r <= k
    <3>1. CASE k + 1 <= r
      <4>1. (k + 1) * (k + 1) <= r * r /\ r * r \in Nat /\ (k + 1) * (k + 1) \in Nat
        BY <3>1, SquareOrder
      <4> QED
        BY <1>1, <2>1, <4>1 DEF IsRoot
    <3> QED
      BY <3>1
  <2>2. ASSUME NEW r \in 1..k PROVE r \in 1..n /\ r * r <= n
    <3>1. r * r <= k * k /\ r * r \in Nat /\ k * k \in Nat
      BY SquareOrder
    <3> QED
      BY <1>1, <3>1 DEF IsRoot
  <2> QED
    BY <2>1, <2>2
<1>3. Cardinality(1..k) = k
  BY FS_Interval
<1>4. isqrt(n) = k
  BY <1>2, <1>3, Zenon DEF isqrt
<1> QED
  BY <1>1, <1>4

\* The next value of the loop, for a value x.
NextValue(n, x) == (x + n \div x) \div 2

\* It never falls below the root.
LEMMA NextAboveRoot ==
    ASSUME NEW n \in Nat, NEW k \in Nat, IsRoot(k, n), NEW x \in Nat \ {0}
    PROVE  NextValue(n, x) \in Nat /\ k <= NextValue(n, x)
<1>1. PICK q \in Nat : q = n \div x /\ n < (q + 1) * x
  <2>1. (n \div x) \in Nat /\ n < x * ((n \div x) + 1)
    OBVIOUS
  <2> QED
    BY <2>1
<1>2. PICK y \in Nat : y = NextValue(n, x) /\ x + q <= 2 * y + 1
  <2>1. NextValue(n, x) = (x + q) \div 2
    BY <1>1 DEF NextValue
  <2> QED
    BY <2>1
<1>3. ASSUME y < k PROVE FALSE
  <2>1. q + 1 <= 2 * k - x
    BY <1>2, <1>3
  <2>2. (q + 1) * x <= (2 * k - x) * x
    BY <2>1
  <2>3. (2 * k - x) * x <= k * k
    <3>1. 0 <= (k - x) * (k - x)
      OBVIOUS
    <3> QED
      BY <3>1
  <2>4. (q + 1) * x \in Int /\ (2 * k - x) * x \in Int /\ k * k \in Int
    OBVIOUS
  <2> QED
    BY <1>1, <2>2, <2>3, <2>4 DEF IsRoot
<1> QED
  BY <1>2, <1>3

\* Where it does not fall any more, the loop has found the root.
LEMMA StopsAtRoot ==
    ASSUME NEW n \in Nat, NEW k \in Nat, IsRoot(k, n), NEW x \in Nat \ {0}, k <= x,
           ~(NextValue(n, x) < x)
    PROVE  x = k
<1>1. PICK q \in Nat : q = n \div x /\ q * x <= n
  <2>1. (n \div x) \in Nat /\ x * (n \div x) <= n
    OBVIOUS
  <2> QED
    BY <2>1
<1>2. x <= q
  <2>1. NextValue(n, x) = (x + q) \div 2
    BY <1>1 DEF NextValue
  <2>2. x <= (x + q) \div 2
    BY <2>1, NextAboveRoot
  <2> QED
    BY <2>2
<1>3. x * x <= n
  <2>1. x * x <= q * x /\ x * x \in Nat /\ q * x \in Nat
    BY <1>2
  <2> QED
    BY <1>1, <2>1
<1>4. ASSUME k + 1 <= x PROVE FALSE
  <2>1. (k + 1) * (k + 1) <= x * x /\ x * x \in Nat /\ (k + 1) * (k + 1) \in Nat
    BY <1>4, SquareOrder
  <2> QED
    BY <1>3, <2>1 DEF IsRoot
<1> QED
  BY <1>4

\* Newton's iteration, which the pool uses for the shares of its first deposit, returns
\* the square root rounded down, for every integer: the loop neither stops early nor
\* falls below it.
THEOREM NewtonComputesRoot ==
    \A n \in Int : /\ NewtonSqrt(n) = isqrt(n)
                   /\ n >= 0 => IsRoot(NewtonSqrt(n), n)
<1>1. ASSUME NEW n \in Int, n <= 0 PROVE NewtonSqrt(n) = isqrt(n) /\ (n >= 0 => IsRoot(NewtonSqrt(n), n))
  <2>1. {r \in 1..n : r * r <= n} = {}
    BY <1>1
  <2>2. isqrt(n) = 0
    BY <2>1, FS_EmptySet DEF isqrt
  <2>3. NewtonSqrt(n) = 0
    BY <1>1 DEF NewtonSqrt
  <2> QED
    BY <1>1, <2>2, <2>3 DEF IsRoot
<1>2. ASSUME NEW n \in Int, n > 0 PROVE NewtonSqrt(n) = isqrt(n) /\ (n >= 0 => IsRoot(NewtonSqrt(n), n))
  <2> DEFINE k == isqrt(n)
             IsLoop(d) == d = [x \in 1..n |->
                                 LET y == (x + n \div x) \div 2 IN IF y < x THEN d[y] ELSE x]
             loop == CHOOSE d : IsLoop(d)
             found == [x \in 1..n |-> IF x < k THEN x ELSE k]
  <2>1. k \in 0..n /\ IsRoot(k, n) /\ n \in Nat
    BY <1>2, IsqrtIsRoot
  <2>2. k # 0
    BY <1>2, <2>1 DEF IsRoot
  <2>3. NewtonSqrt(n) = loop[n]
    BY <1>2 DEF NewtonSqrt
  <2> HIDE DEF k
  <2>4. ASSUME NEW x \in 1..n
        PROVE  LET y == (x + n \div x) \div 2
               IN  /\ y \in Nat /\ k <= y
                   /\ k <= x /\ ~(y < x) => x = k
    BY <2>1, NextAboveRoot, StopsAtRoot DEF NextValue
  <2>5. IsLoop(found)
    <3>1. ASSUME NEW x \in 1..n
          PROVE  found[x] = LET y == (x + n \div x) \div 2 IN IF y < x THEN found[y] ELSE x
      <4>1. PICK y \in Nat : y = (x + n \div x) \div 2 /\ k <= y /\ (k <= x /\ ~(y < x) => x = k)
        BY <2>4
      <4>2. y < x => y \in 1..n /\ found[y] = k /\ found[x] = k
        BY <2>1, <2>2, <4>1
      <4>3. ~(y < x) => found[x] = x
        BY <2>1, <4>1
      <4> QED
        BY <4>1, <4>2, <4>3
    <3>2. found = [x \in 1..n |-> found[x]]
      OBVIOUS
    <3> HIDE DEF found
    <3> QED
      BY <3>1, <3>2
  <2>6. IsLoop(loop)
    <3> HIDE DEF IsLoop, found
    <3> QED
      BY <2>5
  <2> HIDE DEF loop, found
  <2>7. ASSUME NEW x \in 1..n, k <= x, loop[x] # k PROVE FALSE
    <3> DEFINE Wrong == {w \in 1..n : k <= w /\ loop[w] # k}
    <3>1. PICK w \in Wrong : \A v \in Wrong : w <= v
      <4>1. Wrong \in SUBSET Nat /\ Wrong # {}
        BY <2>7
      <4> HIDE DEF Wrong
      <4> QED
        BY <4>1, LeastOf
    <3>2. PICK y \in Nat : y = (w + n \div w) \div 2 /\ k <= y /\ (k <= w /\ ~(y < w) => w = k)
      BY <2>4
    <3>3. loop[w] = IF y < w THEN loop[y] ELSE w
      BY <2>6, <3>1, <3>2
    <3>4. CASE y < w
      <4>1. y \in 1..n /\ y \notin Wrong
        BY <2>1, <2>2, <3>1, <3>2, <3>4
      <4>2. loop[y] = k
        BY <3>2, <4>1
      <4> QED
        BY <3>1, <3>3, <3>4, <4>2
    <3>5. CASE ~(y < w)
      BY <3>1, <3>2, <3>3, <3>5
    <3> QED
      BY <3>4, <3>5
  <2>8. loop[n] = k
    BY <1>2, <2>1, <2>7
  <2> QED
    BY <2>1, <2>3, <2>8 DEF k
<1> QED
  BY <1>1, <1>2

\* Covered payments to and from the pool.
LEMMA PaidIn ==
    ASSUME NEW bal \in [Accounts -> Nat], NEW user \in Users, NEW n \in Nat, bal[user] >= n
    PROVE  /\ Moved(bal, user, PoolContract, n) \in [Accounts -> Nat]
           /\ Moved(bal, user, PoolContract, n)[PoolContract] = bal[PoolContract] + n
<1>1. user \in Accounts /\ PoolContract \in Accounts /\ user # PoolContract
  BY ConstantTypes
<1> QED
  BY <1>1, MovedType

LEMMA PaidOut ==
    ASSUME NEW bal \in [Accounts -> Nat], NEW user \in Accounts, user # PoolContract,
           NEW n \in Nat, bal[PoolContract] >= n
    PROVE  /\ Moved(bal, PoolContract, user, n) \in [Accounts -> Nat]
           /\ Moved(bal, PoolContract, user, n)[PoolContract] = bal[PoolContract] - n
<1>1. PoolContract \in Accounts
  BY ConstantTypes
<1> QED
  BY <1>1, MovedType

\* A transfer between other accounts leaves the pool's balance alone.
LEMMA PaidBetweenOthers ==
    ASSUME NEW bal \in [Accounts -> Nat], NEW from \in Users, NEW to \in Accounts,
           to # PoolContract, NEW n \in Nat, bal[from] >= n
    PROVE  /\ Moved(bal, from, to, n) \in [Accounts -> Nat]
           /\ Moved(bal, from, to, n)[PoolContract] = bal[PoolContract]
<1>1. from \in Accounts /\ PoolContract \in Accounts /\ from # PoolContract
  BY ConstantTypes
<1>2. Moved(bal, from, to, n) \in [Accounts -> Nat]
  BY <1>1, MovedType
<1> QED
  BY <1>1, <1>2 DEF Moved

\* What a deposit takes and mints are integers.
LEMMA AddedTypes ==
    ASSUME ReservesInv, SharesInv, NEW x \in Int, NEW s \in Int,
           totalLp # 0 => reserveXlm # 0 /\ reserveSxlm # 0
    PROVE  AddedShares(x, s) \in Int /\ AddedXlm(x, s) \in Int /\ AddedSxlm(x, s) \in Int
<1> USE DEF ReservesInv, SharesInv
<1>1. AddedShares(x, s) \in Int
  <2>1. CASE totalLp = 0
    BY <2>1, IsqrtType DEF AddedShares
  <2>2. CASE totalLp # 0
    <3>1. x * totalLp \in Int /\ s * totalLp \in Int
      OBVIOUS
    <3> QED
      BY <2>2, <3>1, TruncDivType DEF AddedShares
  <2> QED
    BY <2>1, <2>2
<1> DEFINE lp == AddedShares(x, s)
<1>2. lp \in Int
  BY <1>1
<1> HIDE DEF lp
<1>3. lp * reserveXlm \in Int /\ lp * reserveSxlm \in Int
  BY <1>2
<1>4. totalLp # 0 => /\ TruncDiv(lp * reserveXlm, totalLp) \in Int
                     /\ TruncDiv(lp * reserveSxlm, totalLp) \in Int
  BY <1>3, TruncDivType
<1>5. AddedXlm(x, s) \in Int
  BY <1>4 DEF AddedXlm, lp
<1>6. AddedSxlm(x, s) \in Int
  BY <1>4 DEF AddedSxlm, lp
<1> QED
  BY <1>1, <1>5, <1>6

\* What is left of a swapped amount after the fee is no more than the amount.
LEMMA AfterFeeType ==
    ASSUME NEW n \in Nat
    PROVE  AfterFee(n) \in 0..n
<1> DEFINE d == BPS_DENOMINATOR
           rest == BPS_DENOMINATOR - FeeBps
           q == AfterFee(n)
<1>1. d \in Nat \ {0} /\ rest \in 0..d
  BY ConstantTypes
<1> HIDE DEF d, rest
<1>2. n * rest \in Nat /\ n * rest <= n * d
  BY <1>1
<1>3. q \in Nat /\ q * d <= n * rest
  BY <1>1, <1>2, TruncDivOfNat DEF AfterFee, d, rest
<1> HIDE DEF q
<1>4. q * d <= n * d
  BY <1>1, <1>2, <1>3
<1>5. q <= n
  BY <1>1, <1>3, <1>4
<1> QED
  BY <1>3, <1>5 DEF q

----------------------------------------------------------------------------
(* Every call keeps the pool's tokens equal to its books. *)

LEMMA InitInv == Init => Inv
BY ConstantTypes DEF Init, Inv, TokensInv, ReservesInv, SharesInv, FeesInv, GivenInv,
                     ReservesAreHeld

LEMMA AddInv ==
    ASSUME Inv, NEW user \in Users, NEW x \in XlmAmounts, NEW s \in SxlmAmounts,
           AddLiquidity(user, x, s)
    PROVE  Inv'
<1> DEFINE lp == AddedShares(x, s)
           dx == AddedXlm(x, s)
           ds == AddedSxlm(x, s)
<1>1. lp \in Int /\ dx \in Nat /\ ds \in Nat
  <2>1. /\ totalLp # 0 => reserveXlm # 0 /\ reserveSxlm # 0
        /\ dx > 0 /\ ds > 0
    BY DEF AddLiquidity
  <2>2. x \in Int /\ s \in Int /\ ReservesInv /\ SharesInv
    BY ConstantTypes DEF Inv
  <2>3. lp \in Int /\ dx \in Int /\ ds \in Int
    BY <2>1, <2>2, AddedTypes
  <2> QED
    BY <2>1, <2>3
<1>2. /\ xlm[user] >= dx /\ sxlm[user] >= ds
      /\ xlm' = Moved(xlm, user, PoolContract, dx)
      /\ sxlm' = Moved(sxlm, user, PoolContract, ds)
      /\ reserveXlm' = reserveXlm + dx /\ reserveSxlm' = reserveSxlm + ds
      /\ totalLp' = totalLp + lp
      /\ lpBalance' = [lpBalance EXCEPT ![user] = @ + lp]
      /\ UNCHANGED <<feeVars, givenVars>>
  BY DEF AddLiquidity
<1> HIDE DEF lp, dx, ds
<1>3. /\ xlm' \in [Accounts -> Nat] /\ xlm'[PoolContract] = xlm[PoolContract] + dx
      /\ sxlm' \in [Accounts -> Nat] /\ sxlm'[PoolContract] = sxlm[PoolContract] + ds
  BY <1>1, <1>2, PaidIn DEF Inv, TokensInv
<1>4. SharesInv'
  BY <1>1, <1>2 DEF Inv, SharesInv
<1>5. ReservesInv' /\ FeesInv' /\ GivenInv'
  BY <1>1, <1>2 DEF Inv, ReservesInv, FeesInv, GivenInv, feeVars, givenVars
<1>6. ReservesAreHeld'
  <2>1. xlm'[PoolContract] = givenXlm + (reserveXlm + dx) + accruedFees
    BY <1>1, <1>3 DEF Inv, ReservesAreHeld, ReservesInv, FeesInv, GivenInv
  <2>2. sxlm'[PoolContract] = givenSxlm + (reserveSxlm + ds)
    BY <1>1, <1>3 DEF Inv, ReservesAreHeld, ReservesInv, GivenInv
  <2> QED
    BY <1>2, <2>1, <2>2 DEF ReservesAreHeld, feeVars, givenVars
<1> QED
  BY <1>3, <1>4, <1>5, <1>6 DEF Inv, TokensInv

LEMMA RemoveInv ==
    ASSUME Inv, NEW user \in Users, NEW lp \in LpAmounts, RemoveLiquidity(user, lp)
    PROVE  Inv'
<1> DEFINE xOut == TruncDiv(lp * reserveXlm, totalLp)
           sOut == TruncDiv(lp * reserveSxlm, totalLp)
<1>1. lp \in Int /\ totalLp \in Int /\ totalLp # 0
  BY ConstantTypes DEF RemoveLiquidity, Inv, SharesInv
<1>2. lp * reserveXlm \in Int /\ lp * reserveSxlm \in Int
  BY <1>1 DEF Inv, ReservesInv
<1>3. xOut \in Int /\ sOut \in Int
  BY <1>1, <1>2, TruncDivType
<1>4. /\ xOut > 0 /\ sOut > 0
      /\ xlm[PoolContract] >= xOut /\ sxlm[PoolContract] >= sOut
      /\ xlm' = Moved(xlm, PoolContract, user, xOut)
      /\ sxlm' = Moved(sxlm, PoolContract, user, sOut)
      /\ reserveXlm' = reserveXlm - xOut /\ reserveSxlm' = reserveSxlm - sOut
      /\ totalLp' = totalLp - lp
      /\ lpBalance' = [lpBalance EXCEPT ![user] = @ - lp]
      /\ UNCHANGED <<feeVars, givenVars>>
  BY DEF RemoveLiquidity
<1> HIDE DEF xOut, sOut
<1>5. xOut \in Nat /\ sOut \in Nat /\ user \in Accounts /\ user # PoolContract
  BY <1>3, <1>4, ConstantTypes
<1>6. /\ xlm' \in [Accounts -> Nat] /\ xlm'[PoolContract] = xlm[PoolContract] - xOut
      /\ sxlm' \in [Accounts -> Nat] /\ sxlm'[PoolContract] = sxlm[PoolContract] - sOut
  BY <1>4, <1>5, PaidOut DEF Inv, TokensInv
<1>7. SharesInv'
  BY <1>1, <1>4 DEF Inv, SharesInv
<1>8. ReservesInv' /\ FeesInv' /\ GivenInv'
  BY <1>4, <1>5 DEF Inv, ReservesInv, FeesInv, GivenInv, feeVars, givenVars
<1>9. ReservesAreHeld'
  BY <1>4, <1>5, <1>6 DEF Inv, ReservesAreHeld, ReservesInv, FeesInv, GivenInv, feeVars, givenVars
<1> QED
  BY <1>6, <1>7, <1>8, <1>9 DEF Inv, TokensInv

\* The output of a swap between nonempty reserves, and the protocol's cut of its fee.
LEMMA SwapOutType ==
    ASSUME NEW rIn \in Nat \ {0}, NEW rOut \in Nat \ {0}, NEW a \in Nat
    PROVE  SwapOut(rIn, rOut, a) \in Int
<1>1. rIn * rOut \in Nat /\ rIn + a \in Nat \ {0}
  OBVIOUS
<1>2. TruncDiv(rIn * rOut, rIn + a) \in Nat
  BY <1>1, TruncDivOfNat
<1> QED
  BY <1>2 DEF SwapOut

LEMMA CutType ==
    ASSUME NEW fee \in Nat, NEW bps \in Nat, FeeBps # 0
    PROVE  TruncDiv(fee * bps, FeeBps) \in Nat
<1>1. FeeBps \in Nat \ {0} /\ fee * bps \in Nat
  BY ConstantTypes
<1> QED
  BY <1>1, TruncDivOfNat

LEMMA SwapXlmInv ==
    ASSUME Inv, NEW user \in Users, NEW n \in XlmAmounts, NEW min \in MinOuts,
           SwapXlmToSxlm(user, n, min)
    PROVE  Inv'
<1> DEFINE afterFee == AfterFee(n)
           out == SwapOut(reserveXlm, reserveSxlm, afterFee)
           cut == TruncDiv((n - afterFee) * protocolFeeBps, FeeBps)
<1>1. /\ out > 0 /\ FeeBps # 0 /\ n > 0 /\ reserveXlm > 0 /\ reserveSxlm > 0
      /\ xlm[user] >= n /\ sxlm[PoolContract] >= out
      /\ xlm' = Moved(xlm, user, PoolContract, n)
      /\ sxlm' = Moved(sxlm, PoolContract, user, out)
      /\ reserveXlm' = reserveXlm + n - cut /\ reserveSxlm' = reserveSxlm - out
      /\ accruedFees' = accruedFees + cut
      /\ UNCHANGED <<shareVars, protocolFeeBps, givenVars>>
  BY DEF SwapXlmToSxlm
<1>2. /\ n \in Nat /\ reserveXlm \in Nat \ {0} /\ reserveSxlm \in Nat \ {0}
      /\ protocolFeeBps \in Nat /\ user \in Accounts /\ user # PoolContract
  BY <1>1, ConstantTypes DEF Inv, ReservesInv, FeesInv
<1>3. afterFee \in Nat /\ n - afterFee \in Nat
  BY <1>2, AfterFeeType
<1> HIDE DEF afterFee
<1>4. out \in Nat
  BY <1>1, <1>2, <1>3, SwapOutType
<1>5. cut \in Nat
  BY <1>1, <1>2, <1>3, CutType
<1> HIDE DEF out, cut
<1>6. /\ xlm' \in [Accounts -> Nat] /\ xlm'[PoolContract] = xlm[PoolContract] + n
      /\ sxlm' \in [Accounts -> Nat] /\ sxlm'[PoolContract] = sxlm[PoolContract] - out
  BY <1>1, <1>2, <1>4, PaidIn, PaidOut DEF Inv, TokensInv
<1>7. ReservesInv' /\ FeesInv' /\ GivenInv' /\ SharesInv'
  BY <1>1, <1>2, <1>4, <1>5 DEF Inv, ReservesInv, FeesInv, GivenInv, SharesInv, shareVars, givenVars
<1>8. ReservesAreHeld'
  BY <1>1, <1>2, <1>4, <1>5, <1>6
     DEF Inv, TokensInv, ReservesAreHeld, ReservesInv, FeesInv, GivenInv, givenVars
<1> QED
  BY <1>6, <1>7, <1>8 DEF Inv, TokensInv

LEMMA SwapSxlmInv ==
    ASSUME Inv, NEW user \in Users, NEW n \in SxlmAmounts, NEW min \in MinOuts,
           SwapSxlmToXlm(user, n, min)
    PROVE  Inv'
<1> DEFINE afterFee == AfterFee(n)
           out == SwapOut(reserveSxlm, reserveXlm, afterFee)
<1>1. /\ out > 0 /\ n > 0 /\ reserveXlm > 0 /\ reserveSxlm > 0
      /\ sxlm[user] >= n /\ xlm[PoolContract] >= out
      /\ sxlm' = Moved(sxlm, user, PoolContract, n)
      /\ xlm' = Moved(xlm, PoolContract, user, out)
      /\ reserveSxlm' = reserveSxlm + n /\ reserveXlm' = reserveXlm - out
      /\ UNCHANGED <<shareVars, feeVars, givenVars>>
  BY DEF SwapSxlmToXlm
<1>2. /\ n \in Nat /\ reserveXlm \in Nat \ {0} /\ reserveSxlm \in Nat \ {0}
      /\ user \in Accounts /\ user # PoolContract
  BY <1>1, ConstantTypes DEF Inv, ReservesInv
<1>3. afterFee \in Nat
  BY <1>2, AfterFeeType
<1> HIDE DEF afterFee
<1>4. out \in Nat
  BY <1>1, <1>2, <1>3, SwapOutType
<1> HIDE DEF out
<1>5. /\ xlm' \in [Accounts -> Nat] /\ xlm'[PoolContract] = xlm[PoolContract] - out
      /\ sxlm' \in [Accounts -> Nat] /\ sxlm'[PoolContract] = sxlm[PoolContract] + n
  BY <1>1, <1>2, <1>4, PaidIn, PaidOut DEF Inv, TokensInv
<1>6. ReservesInv' /\ FeesInv' /\ GivenInv' /\ SharesInv'
  BY <1>1, <1>2, <1>4
     DEF Inv, ReservesInv, FeesInv, GivenInv, SharesInv, shareVars, feeVars, givenVars
<1>7. ReservesAreHeld'
  BY <1>1, <1>2, <1>4, <1>5
     DEF Inv, TokensInv, ReservesAreHeld, ReservesInv, FeesInv, GivenInv, feeVars, givenVars
<1> QED
  BY <1>5, <1>6, <1>7 DEF Inv, TokensInv

LEMMA CollectInv == ASSUME Inv, CollectProtocolFees PROVE Inv'
<1>1. accruedFees \in Nat /\ xlm[PoolContract] >= accruedFees
  BY DEF CollectProtocolFees, Inv, FeesInv
<1>2. /\ xlm' \in [Accounts -> Nat]
      /\ xlm'[PoolContract] = xlm[PoolContract] - accruedFees
  BY <1>1, ConstantTypes, PaidOut DEF CollectProtocolFees, Inv, TokensInv
<1>3. /\ sxlm' = sxlm /\ accruedFees' = 0 /\ protocolFeeBps' = protocolFeeBps
      /\ reserveXlm' = reserveXlm /\ reserveSxlm' = reserveSxlm
      /\ totalLp' = totalLp /\ lpBalance' = lpBalance
      /\ givenXlm' = givenXlm /\ givenSxlm' = givenSxlm
  BY DEF CollectProtocolFees, reserveVars, shareVars, givenVars
<1>4. ReservesAreHeld'
  BY <1>1, <1>2, <1>3, ConstantTypes DEF Inv, TokensInv, ReservesAreHeld, ReservesInv, GivenInv
<1> QED
  BY <1>2, <1>3, <1>4 DEF Inv, TokensInv, ReservesInv, SharesInv, FeesInv, GivenInv

LEMMA SetFeeInv == ASSUME Inv, NEW bps \in ProtocolFees, SetProtocolFeeBps(bps) PROVE Inv'
<1>1. /\ protocolFeeBps' = bps /\ bps \in Nat
      /\ xlm' = xlm /\ sxlm' = sxlm /\ accruedFees' = accruedFees
      /\ reserveXlm' = reserveXlm /\ reserveSxlm' = reserveSxlm
      /\ totalLp' = totalLp /\ lpBalance' = lpBalance
      /\ givenXlm' = givenXlm /\ givenSxlm' = givenSxlm
  BY ConstantTypes DEF SetProtocolFeeBps, reserveVars, shareVars, givenVars
<1> QED
  BY <1>1 DEF Inv, TokensInv, ReservesInv, SharesInv, FeesInv, GivenInv, ReservesAreHeld

LEMMA SendXlmInv ==
    ASSUME Inv, NEW from \in Users, NEW to \in Accounts, NEW n \in SentXlm, SendXlm(from, to, n)
    PROVE  Inv'
<1>1. n \in Nat /\ xlm[from] >= n /\ xlm' = Moved(xlm, from, to, n)
  BY ConstantTypes DEF SendXlm
<1>2. /\ givenXlm' = IF to = PoolContract THEN givenXlm + n ELSE givenXlm
      /\ UNCHANGED <<sxlm, reserveVars, shareVars, feeVars, givenSxlm>>
  BY DEF SendXlm
<1>3. /\ xlm' \in [Accounts -> Nat]
      /\ xlm'[PoolContract] = IF to = PoolContract THEN xlm[PoolContract] + n
                                                  ELSE xlm[PoolContract]
  BY <1>1, PaidIn, PaidBetweenOthers DEF Inv, TokensInv
<1>4. TokensInv' /\ ReservesInv' /\ SharesInv' /\ FeesInv' /\ GivenInv'
  BY <1>1, <1>2, <1>3 DEF Inv, TokensInv, ReservesInv, SharesInv, FeesInv, GivenInv,
                          reserveVars, shareVars, feeVars
<1>5. ReservesAreHeld'
  BY <1>1, <1>2, <1>3, ConstantTypes
     DEF Inv, TokensInv, ReservesAreHeld, ReservesInv, FeesInv, GivenInv, reserveVars, feeVars
<1> QED
  BY <1>4, <1>5 DEF Inv

LEMMA SendSxlmInv ==
    ASSUME Inv, NEW from \in Users, NEW to \in Accounts, NEW n \in SentSxlm, SendSxlm(from, to, n)
    PROVE  Inv'
<1>1. n \in Nat /\ sxlm[from] >= n /\ sxlm' = Moved(sxlm, from, to, n)
  BY ConstantTypes DEF SendSxlm
<1>2. /\ givenSxlm' = IF to = PoolContract THEN givenSxlm + n ELSE givenSxlm
      /\ UNCHANGED <<xlm, reserveVars, shareVars, feeVars, givenXlm>>
  BY DEF SendSxlm
<1>3. /\ sxlm' \in [Accounts -> Nat]
      /\ sxlm'[PoolContract] = IF to = PoolContract THEN sxlm[PoolContract] + n
                                                   ELSE sxlm[PoolContract]
  BY <1>1, PaidIn, PaidBetweenOthers DEF Inv, TokensInv
<1>4. TokensInv' /\ ReservesInv' /\ SharesInv' /\ FeesInv' /\ GivenInv'
  BY <1>1, <1>2, <1>3 DEF Inv, TokensInv, ReservesInv, SharesInv, FeesInv, GivenInv,
                          reserveVars, shareVars, feeVars
<1>5. ReservesAreHeld'
  BY <1>1, <1>2, <1>3, ConstantTypes
     DEF Inv, TokensInv, ReservesAreHeld, ReservesInv, FeesInv, GivenInv, reserveVars, feeVars
<1> QED
  BY <1>4, <1>5 DEF Inv

LEMMA NextInv == Inv /\ [Next]_vars => Inv'
<1> SUFFICES ASSUME Inv, [Next]_vars PROVE Inv'
  OBVIOUS
<1>1. CASE Next
  BY <1>1, AddInv, RemoveInv, SwapXlmInv, SwapSxlmInv, CollectInv, SetFeeInv, SendXlmInv,
     SendSxlmInv DEF Next
<1>2. CASE UNCHANGED vars
  BY <1>2 DEF vars, reserveVars, shareVars, feeVars, givenVars, Inv, TokensInv, ReservesInv,
              SharesInv, FeesInv, GivenInv, ReservesAreHeld
<1> QED
  BY <1>1, <1>2

\* The pool's tokens are its reserves, the accrued fees and what it was sent, whatever
\* the swap fee, and even when the protocol's cut is set above that fee.
THEOREM ReservesAlwaysHeld == Spec => []ReservesAreHeld
<1>1. Spec => []Inv
  BY InitInv, NextInv, PTL DEF Spec
<1>2. Inv => ReservesAreHeld
  BY DEF Inv
<1> QED
  BY <1>1, <1>2, PTL

----------------------------------------------------------------------------
(* What other shareholders lose to a deposit or a withdrawal. *)

\* The quotient of integers by a positive integer is positive only for a positive dividend.
LEMMA PositiveShare ==
    ASSUME NEW n \in Nat \ {0}, NEW r \in Int, NEW d \in Int, d # 0, TruncDiv(n * r, d) > 0,
           r > 0 \/ d > 0
    PROVE  r > 0 /\ d > 0
<1>1. n * r \in Int /\ (r > 0 => n * r \in Nat) /\ (n * r > 0 => r > 0)
  OBVIOUS
<1>2. CASE d > 0
  BY <1>1, <1>2, TruncDivRoundsDown
<1>3. CASE r > 0 /\ d < 0
  <2>1. TruncDiv(n * r, d) <= 0 /\ TruncDiv(n * r, d) \in Int
    BY <1>1, <1>3, TruncDivBelowZero, TruncDivType
  <2> QED
    BY <2>1
<1> QED
  BY <1>2, <1>3

\* One more unit of a rounded-down amount covers the share it stands for.
LEMMA OneUnitCovers ==
    ASSUME NEW lp \in Nat, NEW r \in Nat, NEW t \in Nat \ {0}, NEW x \in Nat,
           x = TruncDiv(lp * r, t)
    PROVE  (r + x + 1) * t >= r * (t + lp)
<1>1. lp * r \in Nat
  OBVIOUS
<1>2. lp * r < (x + 1) * t
  BY <1>1, TruncDivOfNat
<1>3. (r + x + 1) * t = r * t + (x + 1) * t /\ r * (t + lp) = r * t + lp * r
  OBVIOUS
<1> DEFINE a == (x + 1) * t
           b == lp * r
           c == r * t
<1>4. a \in Nat /\ b \in Nat /\ c \in Nat
  OBVIOUS
<1> HIDE DEF a, b, c
<1>5. c + a >= c + b
  BY <1>2, <1>4 DEF a, b
<1> QED
  BY <1>3, <1>5 DEF a, b, c

\* Shares rounded down from an amount are worth no more than it.
LEMMA SharesCovered ==
    ASSUME NEW x \in Nat, NEW r \in Nat \ {0}, NEW t \in Nat, NEW lp \in Nat,
           lp = TruncDiv(x * t, r)
    PROVE  (r + x + 1) * t >= r * (t + lp)
<1>1. x * t \in Nat
  OBVIOUS
<1>2. lp * r <= x * t
  BY <1>1, TruncDivOfNat
<1>3. (r + x + 1) * t = r * t + x * t + t /\ r * (t + lp) = r * t + lp * r
  OBVIOUS
<1> DEFINE a == x * t
           b == lp * r
           c == r * t
<1>4. a \in Nat /\ b \in Nat /\ c \in Nat
  OBVIOUS
<1> HIDE DEF a, b, c
<1>5. c + a + t >= c + b
  BY <1>2, <1>4 DEF a, b
<1> QED
  BY <1>3, <1>5 DEF a, b, c

\* A payout rounded down is no more than the share it is for.
LEMMA PayoutCovered ==
    ASSUME NEW lp \in Nat, NEW r \in Nat, NEW t \in Nat \ {0}, NEW out \in Nat,
           out = TruncDiv(lp * r, t)
    PROVE  (r - out + 1) * t >= r * (t - lp)
<1>1. lp * r \in Nat
  OBVIOUS
<1>2. out * t <= lp * r
  BY <1>1, TruncDivOfNat
<1>3. (r - out + 1) * t = r * t - out * t + t /\ r * (t - lp) = r * t - lp * r
  OBVIOUS
<1> DEFINE a == out * t
           b == lp * r
           c == r * t
<1>4. a \in Nat /\ b \in Nat /\ c \in Nat
  OBVIOUS
<1> HIDE DEF a, b, c
<1>5. c - a + t >= c - b
  BY <1>2, <1>4 DEF a, b
<1> QED
  BY <1>3, <1>5 DEF a, b, c

FairToOthers ==
    totalLp > 0 /\ totalLp' # totalLp =>
        /\ (reserveXlm' + 1) * totalLp >= reserveXlm * totalLp'
        /\ (reserveSxlm' + 1) * totalLp >= reserveSxlm * totalLp'

LEMMA AddIsFair ==
    ASSUME Inv, NEW user \in Users, NEW x \in XlmAmounts, NEW s \in SxlmAmounts,
           AddLiquidity(user, x, s)
    PROVE  FairToOthers
<1> SUFFICES ASSUME totalLp > 0
             PROVE  /\ (reserveXlm' + 1) * totalLp >= reserveXlm * totalLp'
                    /\ (reserveSxlm' + 1) * totalLp >= reserveSxlm * totalLp'
  BY DEF FairToOthers
<1> DEFINE lp == AddedShares(x, s)
           dx == AddedXlm(x, s)
           ds == AddedSxlm(x, s)
<1>1. /\ x \in Nat \ {0} /\ s \in Nat \ {0}
      /\ totalLp \in Nat \ {0} /\ reserveXlm \in Int /\ reserveSxlm \in Int
      /\ reserveXlm # 0 /\ reserveSxlm # 0
  BY ConstantTypes DEF AddLiquidity, Inv, SharesInv, ReservesInv
<1>2. lp \in Int /\ dx \in Int /\ ds \in Int
  BY <1>1, AddedTypes DEF Inv
<1>3. /\ lp > 0 /\ dx > 0 /\ ds > 0
      /\ reserveXlm' = reserveXlm + dx /\ reserveSxlm' = reserveSxlm + ds
      /\ totalLp' = totalLp + lp
  BY DEF AddLiquidity
<1>4. CASE LimitedByXlm(x, s)
  <2>1. /\ lp = TruncDiv(x * totalLp, reserveXlm) /\ dx = x
        /\ ds = TruncDiv(lp * reserveSxlm, totalLp)
    BY <1>1, <1>4 DEF AddedShares, AddedXlm, AddedSxlm
  <2> HIDE DEF lp, dx, ds
  <2>2. lp \in Nat \ {0} /\ ds \in Nat
    BY <1>2, <1>3
  <2>3. reserveXlm > 0
    <3>1. TruncDiv(x * totalLp, reserveXlm) > 0 /\ totalLp > 0
      BY <1>1, <1>3, <2>1
    <3> QED
      BY <1>1, <3>1, PositiveShare
  <2>4. reserveSxlm > 0
    BY <1>1, <1>3, <2>1, <2>2, PositiveShare
  <2>5. reserveXlm \in Nat \ {0} /\ reserveSxlm \in Nat
    BY <1>1, <2>3, <2>4
  <2>6. (reserveXlm + dx + 1) * totalLp >= reserveXlm * (totalLp + lp)
    BY <1>1, <2>1, <2>2, <2>5, SharesCovered
  <2>7. (reserveSxlm + ds + 1) * totalLp >= reserveSxlm * (totalLp + lp)
    BY <1>1, <2>1, <2>2, <2>5, OneUnitCovers
  <2> QED
    BY <1>3, <2>6, <2>7
<1>5. CASE ~LimitedByXlm(x, s)
  <2>1. /\ lp = TruncDiv(s * totalLp, reserveSxlm) /\ ds = s
        /\ dx = TruncDiv(lp * reserveXlm, totalLp)
    BY <1>1, <1>5 DEF AddedShares, AddedXlm, AddedSxlm
  <2> HIDE DEF lp, dx, ds
  <2>2. lp \in Nat \ {0} /\ dx \in Nat
    BY <1>2, <1>3
  <2>3. reserveSxlm > 0
    BY <1>1, <1>3, <2>1, PositiveShare
  <2>4. reserveXlm > 0
    BY <1>1, <1>3, <2>1, <2>2, PositiveShare
  <2>5. reserveXlm \in Nat /\ reserveSxlm \in Nat \ {0}
    BY <1>1, <2>3, <2>4
  <2>6. (reserveSxlm + ds + 1) * totalLp >= reserveSxlm * (totalLp + lp)
    BY <1>1, <2>1, <2>2, <2>5, SharesCovered
  <2>7. (reserveXlm + dx + 1) * totalLp >= reserveXlm * (totalLp + lp)
    BY <1>1, <2>1, <2>2, <2>5, OneUnitCovers
  <2> QED
    BY <1>3, <2>6, <2>7
<1> QED
  BY <1>4, <1>5

LEMMA RemoveIsFair ==
    ASSUME Inv, NEW user \in Users, NEW lp \in LpAmounts, RemoveLiquidity(user, lp)
    PROVE  FairToOthers
<1> SUFFICES ASSUME totalLp > 0
             PROVE  /\ (reserveXlm' + 1) * totalLp >= reserveXlm * totalLp'
                    /\ (reserveSxlm' + 1) * totalLp >= reserveSxlm * totalLp'
  BY DEF FairToOthers
<1> DEFINE xOut == TruncDiv(lp * reserveXlm, totalLp)
           sOut == TruncDiv(lp * reserveSxlm, totalLp)
<1>1. /\ lp \in Nat \ {0} /\ totalLp \in Nat \ {0}
      /\ reserveXlm \in Int /\ reserveSxlm \in Int
  BY ConstantTypes DEF RemoveLiquidity, Inv, SharesInv, ReservesInv
<1>2. /\ xOut > 0 /\ sOut > 0
      /\ reserveXlm' = reserveXlm - xOut /\ reserveSxlm' = reserveSxlm - sOut
      /\ totalLp' = totalLp - lp
  BY DEF RemoveLiquidity
<1>3. reserveXlm > 0
  BY <1>1, <1>2, PositiveShare
<1>4. reserveSxlm > 0
  BY <1>1, <1>2, PositiveShare
<1>5. reserveXlm \in Nat /\ reserveSxlm \in Nat
  BY <1>1, <1>3, <1>4
<1>6. lp * reserveXlm \in Nat /\ lp * reserveSxlm \in Nat
  BY <1>1, <1>5
<1>7. xOut \in Nat /\ sOut \in Nat
  BY <1>1, <1>6, TruncDivOfNat
<1>8. (reserveXlm - xOut + 1) * totalLp >= reserveXlm * (totalLp - lp)
  BY <1>1, <1>5, <1>7, PayoutCovered
<1>9. (reserveSxlm - sOut + 1) * totalLp >= reserveSxlm * (totalLp - lp)
  BY <1>1, <1>5, <1>7, PayoutCovered
<1> HIDE DEF xOut, sOut
<1> QED
  BY <1>2, <1>8, <1>9

\* Nobody's deposit or withdrawal of liquidity takes more than one unit of each reserve
\* from the shares of the others.
THEOREM OthersAlwaysKeepTheirShare == Spec => OthersKeepTheirShare
<1>1. Spec => []Inv
  BY InitInv, NextInv, PTL DEF Spec
<1>2. Inv /\ [Next]_vars => [FairToOthers]_vars
  <2> SUFFICES ASSUME Inv, Next PROVE FairToOthers
    OBVIOUS
  <2>1. (\E user \in Users : \E x \in XlmAmounts, s \in SxlmAmounts : AddLiquidity(user, x, s))
        => FairToOthers
    BY AddIsFair
  <2>2. (\E user \in Users : \E lp \in LpAmounts : RemoveLiquidity(user, lp)) => FairToOthers
    BY RemoveIsFair
  <2>3. totalLp' = totalLp => FairToOthers
    BY DEF FairToOthers
  <2> QED
    BY <2>1, <2>2, <2>3 DEF Next, SwapXlmToSxlm, SwapSxlmToXlm, CollectProtocolFees,
       SetProtocolFeeBps, SendXlm, SendSxlm, shareVars
<1>3. [FairToOthers]_vars =>
        [totalLp > 0 /\ totalLp' # totalLp =>
           /\ (reserveXlm' + 1) * totalLp >= reserveXlm * totalLp'
           /\ (reserveSxlm' + 1) * totalLp >= reserveSxlm * totalLp']_vars
  BY DEF FairToOthers
<1> QED
  BY <1>1, <1>2, <1>3, PTL DEF Spec, OthersKeepTheirShare

----------------------------------------------------------------------------
(* What a swap pays out. *)

\* The protocol's cut, at its default and at every value it is set to, is a part of the
\* swap fee.  The contract does not enforce it.
CutWithinFee == FeeBps >= 5 /\ ProtocolFees \subseteq 0..FeeBps

CutInv == protocolFeeBps \in 0..FeeBps

\* The constant product, and a positive output only for a positive input.
LEMMA SwapOutWithinOneUnit ==
    ASSUME NEW rIn \in Nat \ {0}, NEW rOut \in Nat \ {0}, NEW a \in Nat,
           NEW out \in Int, out = SwapOut(rIn, rOut, a), out > 0
    PROVE  a > 0 /\ (rIn + a) * (rOut - out + 1) > rIn * rOut
<1> DEFINE q == TruncDiv(rIn * rOut, rIn + a)
<1>1. rIn * rOut \in Nat /\ rIn + a \in Nat \ {0}
  OBVIOUS
<1>2. q \in Nat /\ rIn * rOut < (q + 1) * (rIn + a) /\ (q >= rOut <=> rIn * rOut >= rOut * (rIn + a))
  BY <1>1, TruncDivOfNat
<1>3. q = rOut - out
  BY <1>2 DEF SwapOut
<1> HIDE DEF q
<1>4. a # 0
  BY <1>2, <1>3
<1>5. (q + 1) * (rIn + a) = (rIn + a) * (rOut - out + 1)
  BY <1>2, <1>3
<1> QED
  BY <1>2, <1>4, <1>5

\* With at least the input less the fee in the reserve, the product keeps its bound.
LEMMA ProductWithMoreInput ==
    ASSUME NEW k \in Nat, NEW low \in Nat, NEW high \in Nat, NEW m \in Nat,
           low <= high, low * m > k
    PROVE  high * m > k
<1>1. low * m <= high * m
  OBVIOUS
<1> QED
  BY <1>1

\* A part of the fee is no more than the fee.
LEMMA CutWithin ==
    ASSUME NEW fee \in Nat, NEW bps \in 0..FeeBps, FeeBps # 0
    PROVE  TruncDiv(fee * bps, FeeBps) \in 0..fee
<1> DEFINE q == TruncDiv(fee * bps, FeeBps)
<1>1. FeeBps \in Nat \ {0} /\ bps \in Nat /\ fee * bps \in Nat
  BY ConstantTypes
<1>2. q \in Nat /\ q * FeeBps <= fee * bps
  BY <1>1, TruncDivOfNat
<1> HIDE DEF q
<1>3. fee * bps <= fee * FeeBps
  BY <1>1
<1>4. q * FeeBps <= fee * FeeBps
  BY <1>1, <1>2, <1>3
<1>5. q <= fee
  BY <1>1, <1>2, <1>4
<1> QED
  BY <1>2, <1>5 DEF q

WithinOneUnit ==
    totalLp' = totalLp =>
        \/ UNCHANGED reserveVars
        \/ reserveXlm' > reserveXlm /\ reserveXlm' * (reserveSxlm' + 1) > reserveXlm * reserveSxlm
        \/ reserveSxlm' > reserveSxlm /\ (reserveXlm' + 1) * reserveSxlm' > reserveXlm * reserveSxlm

LEMMA SwapXlmWithinOneUnit ==
    ASSUME Inv, CutInv, NEW user \in Users, NEW n \in XlmAmounts, NEW min \in MinOuts,
           SwapXlmToSxlm(user, n, min)
    PROVE  WithinOneUnit
<1> DEFINE afterFee == AfterFee(n)
           out == SwapOut(reserveXlm, reserveSxlm, afterFee)
           cut == TruncDiv((n - afterFee) * protocolFeeBps, FeeBps)
<1>1. /\ out > 0 /\ out < reserveSxlm /\ FeeBps # 0 /\ n > 0
      /\ reserveXlm > 0 /\ reserveSxlm > 0
      /\ reserveXlm' = reserveXlm + n - cut /\ reserveSxlm' = reserveSxlm - out
  BY DEF SwapXlmToSxlm
<1>2. n \in Nat /\ reserveXlm \in Nat \ {0} /\ reserveSxlm \in Nat \ {0}
  BY <1>1, ConstantTypes DEF Inv, ReservesInv
<1>3. afterFee \in Nat /\ n - afterFee \in Nat
  BY <1>2, AfterFeeType
<1> HIDE DEF afterFee
<1>4. out \in Int
  BY <1>2, <1>3, SwapOutType
<1>5. cut \in 0..(n - afterFee)
  BY <1>1, <1>3, CutWithin DEF CutInv
<1>6. afterFee > 0 /\ (reserveXlm + afterFee) * (reserveSxlm - out + 1) > reserveXlm * reserveSxlm
  BY <1>1, <1>2, <1>3, <1>4, SwapOutWithinOneUnit
<1> HIDE DEF out, cut
<1>7. /\ reserveXlm * reserveSxlm \in Nat /\ reserveXlm + afterFee \in Nat
      /\ reserveXlm + n - cut \in Nat /\ reserveXlm + afterFee <= reserveXlm + n - cut
      /\ reserveSxlm - out + 1 \in Nat
  BY <1>1, <1>2, <1>3, <1>4, <1>5
<1>8. (reserveXlm + n - cut) * (reserveSxlm - out + 1) > reserveXlm * reserveSxlm
  BY <1>6, <1>7, ProductWithMoreInput
<1>9. reserveXlm' > reserveXlm
  BY <1>1, <1>2, <1>3, <1>5, <1>6
<1> QED
  BY <1>1, <1>8, <1>9 DEF WithinOneUnit

LEMMA SwapSxlmWithinOneUnit ==
    ASSUME Inv, NEW user \in Users, NEW n \in SxlmAmounts, NEW min \in MinOuts,
           SwapSxlmToXlm(user, n, min)
    PROVE  WithinOneUnit
<1> DEFINE afterFee == AfterFee(n)
           out == SwapOut(reserveSxlm, reserveXlm, afterFee)
<1>1. /\ out > 0 /\ out < reserveXlm /\ n > 0
      /\ reserveXlm > 0 /\ reserveSxlm > 0
      /\ reserveSxlm' = reserveSxlm + n /\ reserveXlm' = reserveXlm - out
  BY DEF SwapSxlmToXlm
<1>2. n \in Nat /\ reserveXlm \in Nat \ {0} /\ reserveSxlm \in Nat \ {0}
  BY <1>1, ConstantTypes DEF Inv, ReservesInv
<1>3. afterFee \in Nat /\ afterFee <= n
  BY <1>2, AfterFeeType
<1> HIDE DEF afterFee
<1>4. out \in Int
  BY <1>2, <1>3, SwapOutType
<1>5. (reserveSxlm + afterFee) * (reserveXlm - out + 1) > reserveSxlm * reserveXlm
  BY <1>1, <1>2, <1>3, <1>4, SwapOutWithinOneUnit
<1> HIDE DEF out
<1>6. /\ reserveSxlm * reserveXlm \in Nat /\ reserveSxlm + afterFee \in Nat
      /\ reserveSxlm + n \in Nat /\ reserveSxlm + afterFee <= reserveSxlm + n
      /\ reserveXlm - out + 1 \in Nat
  BY <1>1, <1>2, <1>3, <1>4
<1>7. (reserveSxlm + n) * (reserveXlm - out + 1) > reserveSxlm * reserveXlm
  BY <1>5, <1>6, ProductWithMoreInput
<1>8. (reserveXlm' + 1) * reserveSxlm' > reserveXlm * reserveSxlm
  BY <1>1, <1>2, <1>4, <1>7
<1>9. reserveSxlm' > reserveSxlm
  BY <1>1, <1>2
<1> QED
  BY <1>8, <1>9 DEF WithinOneUnit

\* As long as the protocol's cut is a part of the swap fee, no swap pays out more than
\* one unit above the constant product.
THEOREM SwapsPayNoMoreThanTheProduct ==
    ASSUME CutWithinFee
    PROVE  Spec => SwapWithinOneUnit
<1>1. Init => CutInv
  BY ConstantTypes DEF Init, CutInv, CutWithinFee
<1>2. CutInv /\ [Next]_vars => CutInv'
  BY DEF CutInv, CutWithinFee, Next, vars, feeVars, AddLiquidity, RemoveLiquidity, SwapXlmToSxlm,
     SwapSxlmToXlm, CollectProtocolFees, SetProtocolFeeBps, SendXlm, SendSxlm
<1>3. Spec => [](Inv /\ CutInv)
  BY <1>1, <1>2, InitInv, NextInv, PTL DEF Spec
<1>4. Inv /\ CutInv /\ [Next]_vars => [WithinOneUnit]_vars
  <2> SUFFICES ASSUME Inv, CutInv, Next PROVE WithinOneUnit
    OBVIOUS
  <2>1. ASSUME NEW user \in Users, NEW x \in XlmAmounts, NEW s \in SxlmAmounts,
               AddLiquidity(user, x, s)
        PROVE  WithinOneUnit
    <3>1. totalLp \in Int /\ totalLp' = totalLp + AddedShares(x, s) /\ AddedShares(x, s) > 0
      BY <2>1 DEF AddLiquidity, Inv, SharesInv
    <3>2. AddedShares(x, s) \in Int
      BY <2>1, ConstantTypes, AddedTypes DEF AddLiquidity, Inv
    <3> QED
      BY <3>1, <3>2 DEF WithinOneUnit
  <2>2. ASSUME NEW user \in Users, NEW lp \in LpAmounts, RemoveLiquidity(user, lp)
        PROVE  WithinOneUnit
    BY <2>2, ConstantTypes DEF RemoveLiquidity, WithinOneUnit, Inv, SharesInv
  <2>3. UNCHANGED reserveVars => WithinOneUnit
    BY DEF WithinOneUnit
  <2>4. CollectProtocolFees => WithinOneUnit
    BY <2>3 DEF CollectProtocolFees
  <2>5. ASSUME NEW bps \in ProtocolFees, SetProtocolFeeBps(bps) PROVE WithinOneUnit
    BY <2>3, <2>5 DEF SetProtocolFeeBps
  <2>6. ASSUME NEW from \in Users, NEW to \in Accounts, NEW n, SendXlm(from, to, n)
        PROVE  WithinOneUnit
    BY <2>3, <2>6 DEF SendXlm
  <2>7. ASSUME NEW from \in Users, NEW to \in Accounts, NEW n, SendSxlm(from, to, n)
        PROVE  WithinOneUnit
    BY <2>3, <2>7 DEF SendSxlm
  <2> QED
    BY <2>1, <2>2, <2>4, <2>5, <2>6, <2>7, SwapXlmWithinOneUnit, SwapSxlmWithinOneUnit DEF Next
<1>5. [WithinOneUnit]_vars =>
        [totalLp' = totalLp =>
           \/ UNCHANGED reserveVars
           \/ reserveXlm' > reserveXlm /\ reserveXlm' * (reserveSxlm' + 1) > reserveXlm * reserveSxlm
           \/ reserveSxlm' > reserveSxlm /\ (reserveXlm' + 1) * reserveSxlm' > reserveXlm * reserveSxlm]_vars
  BY DEF WithinOneUnit
<1> QED
  BY <1>3, <1>4, <1>5, PTL DEF Spec, SwapWithinOneUnit

----------------------------------------------------------------------------
(* What is behind the shares. *)

\* A ledger has finitely many accounts.
LEMMA FiniteUsers == IsFiniteSet(Users)
<1>1. IsFiniteSet(Accounts) /\ Users \in SUBSET Accounts
  BY LpPoolConstants DEF LpPoolConstants, Users
<1> QED
  BY <1>1, FS_Subset

\* The books with nothing below zero, and the shares with something behind them.
Backed ==
    /\ lpBalance \in [Users -> Nat] /\ accruedFees >= 0 /\ givenXlm >= 0 /\ givenSxlm >= 0
    /\ reserveXlm >= 0 /\ reserveSxlm >= 0
    /\ SharesAreBacked

\* The shares are natural numbers, and no user has more than there are.
LEMMA SharesCover ==
    ASSUME Backed
    PROVE  totalLp \in Nat /\ \A u \in Users : lpBalance[u] <= totalLp
BY FiniteUsers, SumCovers DEF Backed, SharesAreBacked

\* The same of the next state.
LEMMA SharesCoverNext ==
    ASSUME Backed'
    PROVE  \A u \in Users : lpBalance'[u] <= totalLp'
BY FiniteUsers, SumCovers DEF Backed, SharesAreBacked

\* When one user's shares change, their sum changes by as much.
LEMMA SharesSum ==
    ASSUME NEW f \in [Users -> Nat], NEW g \in [Users -> Nat], NEW user \in Users,
           \A x \in Users \ {user} : g[x] = f[x]
    PROVE  /\ SumFunction(f) \in Int
           /\ SumFunction(g) = SumFunction(f) + (g[user] - f[user])
<1>1. f \in [Users -> Int] /\ g \in [Users -> Int]
  OBVIOUS
<1>2. SumFunction(f) \in Int /\ SumFunction(g) = SumFunction(f) - f[user] + g[user]
  BY <1>1, FiniteUsers, SumChange
<1>3. f[user] \in Int /\ g[user] \in Int
  OBVIOUS
<1> QED
  BY <1>2, <1>3

\* A part of the shares takes less than the whole of a reserve, and all of the shares
\* take it all.
LEMMA PayoutLeavesBacking ==
    ASSUME NEW lp \in Nat \ {0}, NEW t \in Nat \ {0}, lp <= t, NEW r \in Nat \ {0}
    PROVE  /\ TruncDiv(lp * r, t) \in Nat
           /\ lp < t => TruncDiv(lp * r, t) < r
           /\ lp = t => TruncDiv(lp * r, t) = r
<1> DEFINE q == TruncDiv(lp * r, t)
<1>1. lp * r \in Nat
  OBVIOUS
<1>2. q \in Nat /\ q * t <= lp * r /\ \A k \in Nat : q >= k <=> lp * r >= k * t
  BY <1>1, TruncDivOfNat
<1> HIDE DEF q
<1>3. q >= r <=> lp * r >= r * t
  BY <1>2
<1>4. lp < t => lp * r < r * t
  OBVIOUS
<1>5. ASSUME lp = t PROVE q = r
  <2>1. q >= r
    BY <1>3, <1>5
  <2>2. q >= r + 1 <=> lp * r >= (r + 1) * t
    BY <1>2
  <2>3. (r + 1) * t = r * t + t /\ lp * r = r * t
    BY <1>5
  <2>4. r * t \in Nat
    OBVIOUS
  <2> QED
    BY <1>2, <2>1, <2>2, <2>3, <2>4
<1>6. lp < t => q < r
  BY <1>1, <1>2, <1>3, <1>4, r * t \in Nat
<1> QED
  BY <1>2, <1>5, <1>6 DEF q

LEMMA AddBacked ==
    ASSUME Inv, Backed, NEW user \in Users, NEW x \in XlmAmounts, NEW s \in SxlmAmounts,
           AddLiquidity(user, x, s)
    PROVE  Backed'
<1> DEFINE lp == AddedShares(x, s)
           dx == AddedXlm(x, s)
           ds == AddedSxlm(x, s)
<1>1. lp \in Int /\ dx \in Int /\ ds \in Int
  <2>1. totalLp # 0 => reserveXlm # 0 /\ reserveSxlm # 0
    BY DEF AddLiquidity
  <2> QED
    BY <2>1, ConstantTypes, AddedTypes DEF Inv
<1>2. /\ lp > 0 /\ dx > 0 /\ ds > 0
      /\ reserveXlm' = reserveXlm + dx /\ reserveSxlm' = reserveSxlm + ds
      /\ totalLp' = totalLp + lp
      /\ lpBalance' = [lpBalance EXCEPT ![user] = @ + lp]
      /\ UNCHANGED <<feeVars, givenVars>>
  BY DEF AddLiquidity
<1> HIDE DEF lp, dx, ds
<1>3. totalLp \in Nat /\ reserveXlm \in Nat /\ reserveSxlm \in Nat
  BY SharesCover DEF Backed, Inv, ReservesInv
<1>4. /\ lpBalance \in [Users -> Nat] /\ lpBalance' \in [Users -> Nat]
      /\ lpBalance'[user] = lpBalance[user] + lp
      /\ \A u \in Users \ {user} : lpBalance'[u] = lpBalance[u]
  BY <1>1, <1>2 DEF Backed
<1>5. totalLp' = SumFunction(lpBalance')
  <2>1. /\ SumFunction(lpBalance) \in Int
        /\ SumFunction(lpBalance') = SumFunction(lpBalance) + (lpBalance'[user] - lpBalance[user])
    BY <1>4, SharesSum
  <2> QED
    BY <1>1, <1>2, <1>4, <2>1 DEF Backed, SharesAreBacked
<1>6. totalLp' > 0 /\ reserveXlm' > 0 /\ reserveSxlm' > 0
  BY <1>1, <1>2, <1>3
<1> QED
  BY <1>2, <1>4, <1>5, <1>6 DEF Backed, SharesAreBacked, feeVars, givenVars

LEMMA RemoveBacked ==
    ASSUME Inv, Backed, NEW user \in Users, NEW lp \in LpAmounts, RemoveLiquidity(user, lp)
    PROVE  Backed'
<1> DEFINE xOut == TruncDiv(lp * reserveXlm, totalLp)
           sOut == TruncDiv(lp * reserveSxlm, totalLp)
<1>1. /\ lp \in Nat \ {0} /\ totalLp \in Nat \ {0} /\ lpBalance[user] >= lp /\ lp <= totalLp
      /\ reserveXlm \in Nat \ {0} /\ reserveSxlm \in Nat \ {0}
      /\ lpBalance \in [Users -> Nat]
  <2>1. totalLp \in Nat /\ lpBalance[user] <= totalLp /\ lpBalance \in [Users -> Nat]
    BY SharesCover DEF Backed
  <2>2. lp \in Int /\ lp > 0 /\ lpBalance[user] >= lp
    BY ConstantTypes DEF RemoveLiquidity
  <2>3. lpBalance[user] \in Nat
    BY <2>1
  <2> QED
    BY <2>1, <2>2, <2>3 DEF Inv, ReservesInv, Backed, SharesAreBacked
<1>2. /\ reserveXlm' = reserveXlm - xOut /\ reserveSxlm' = reserveSxlm - sOut
      /\ totalLp' = totalLp - lp
      /\ lpBalance' = [lpBalance EXCEPT ![user] = @ - lp]
      /\ UNCHANGED <<feeVars, givenVars>>
  BY DEF RemoveLiquidity
<1>3. /\ xOut \in Nat /\ (lp < totalLp => xOut < reserveXlm) /\ (lp = totalLp => xOut = reserveXlm)
      /\ sOut \in Nat /\ (lp < totalLp => sOut < reserveSxlm) /\ (lp = totalLp => sOut = reserveSxlm)
  BY <1>1, PayoutLeavesBacking
<1> HIDE DEF xOut, sOut
<1>4. /\ lpBalance' \in [Users -> Nat]
      /\ lpBalance'[user] = lpBalance[user] - lp
      /\ \A u \in Users \ {user} : lpBalance'[u] = lpBalance[u]
  BY <1>1, <1>2
<1>5. totalLp' = SumFunction(lpBalance')
  <2>1. /\ SumFunction(lpBalance) \in Int
        /\ SumFunction(lpBalance') = SumFunction(lpBalance) + (lpBalance'[user] - lpBalance[user])
    BY <1>1, <1>4, SharesSum
  <2> QED
    BY <1>1, <1>2, <1>4, <2>1 DEF Backed, SharesAreBacked
<1>6. /\ totalLp' > 0 <=> reserveXlm' > 0
      /\ totalLp' > 0 <=> reserveSxlm' > 0
      /\ reserveXlm' >= 0 /\ reserveSxlm' >= 0
  BY <1>1, <1>2, <1>3
<1> QED
  BY <1>2, <1>4, <1>5, <1>6 DEF Backed, SharesAreBacked, feeVars, givenVars

LEMMA SwapXlmBacked ==
    ASSUME Inv, Backed, CutInv, NEW user \in Users, NEW n \in XlmAmounts, NEW min \in MinOuts,
           SwapXlmToSxlm(user, n, min)
    PROVE  Backed'
<1> DEFINE afterFee == AfterFee(n)
           out == SwapOut(reserveXlm, reserveSxlm, afterFee)
           cut == TruncDiv((n - afterFee) * protocolFeeBps, FeeBps)
<1>1. /\ out < reserveSxlm /\ FeeBps # 0 /\ n > 0
      /\ reserveXlm > 0 /\ reserveSxlm > 0
      /\ reserveXlm' = reserveXlm + n - cut /\ reserveSxlm' = reserveSxlm - out
      /\ accruedFees' = accruedFees + cut
      /\ UNCHANGED <<shareVars, protocolFeeBps, givenVars>>
  BY DEF SwapXlmToSxlm
<1>2. n \in Nat /\ reserveXlm \in Nat \ {0} /\ reserveSxlm \in Nat \ {0} /\ accruedFees \in Nat
  BY <1>1, ConstantTypes DEF Inv, ReservesInv, FeesInv, Backed
<1>3. afterFee \in Nat /\ n - afterFee \in Nat
  BY <1>2, AfterFeeType
<1> HIDE DEF afterFee
<1>4. out \in Int
  BY <1>2, <1>3, SwapOutType
<1>5. cut \in 0..(n - afterFee)
  BY <1>1, <1>3, CutWithin DEF CutInv
<1> HIDE DEF out, cut
<1>6. reserveXlm' > 0 /\ reserveSxlm' > 0 /\ accruedFees' >= 0
  BY <1>1, <1>2, <1>3, <1>4, <1>5
<1> QED
  BY <1>1, <1>2, <1>6 DEF Backed, SharesAreBacked, shareVars, givenVars

LEMMA SwapSxlmBacked ==
    ASSUME Inv, Backed, NEW user \in Users, NEW n \in SxlmAmounts, NEW min \in MinOuts,
           SwapSxlmToXlm(user, n, min)
    PROVE  Backed'
<1> DEFINE out == SwapOut(reserveSxlm, reserveXlm, AfterFee(n))
<1>1. /\ out < reserveXlm /\ n > 0 /\ reserveXlm > 0 /\ reserveSxlm > 0
      /\ reserveSxlm' = reserveSxlm + n /\ reserveXlm' = reserveXlm - out
      /\ UNCHANGED <<shareVars, feeVars, givenVars>>
  BY DEF SwapSxlmToXlm
<1>2. n \in Nat /\ reserveXlm \in Nat \ {0} /\ reserveSxlm \in Nat \ {0}
  BY <1>1, ConstantTypes DEF Inv, ReservesInv
<1>3. out \in Int
  <2>1. AfterFee(n) \in Nat
    BY <1>2, AfterFeeType
  <2> QED
    BY <1>2, <2>1, SwapOutType
<1> HIDE DEF out
<1>4. reserveXlm' > 0 /\ reserveSxlm' > 0
  BY <1>1, <1>2, <1>3
<1> QED
  BY <1>1, <1>2, <1>4 DEF Backed, SharesAreBacked, shareVars, feeVars, givenVars

\* Everything else leaves shares and reserves alone.
LEMMA RestBacked ==
    ASSUME Inv, Backed, UNCHANGED <<reserveVars, shareVars>>,
           accruedFees' >= 0, givenXlm' >= 0, givenSxlm' >= 0
    PROVE  Backed'
BY DEF Backed, SharesAreBacked, reserveVars, shareVars

LEMMA NextBacked == Inv /\ CutInv /\ Backed /\ [Next]_vars => Backed'
<1> SUFFICES ASSUME Inv, CutInv, Backed, [Next]_vars PROVE Backed'
  OBVIOUS
<1> USE ConstantTypes
<1>1. accruedFees >= 0 /\ givenXlm \in Nat /\ givenSxlm \in Nat
  BY DEF Inv, FeesInv, GivenInv, Backed
<1>2. CASE CollectProtocolFees
  BY <1>1, <1>2, RestBacked DEF CollectProtocolFees, givenVars
<1>3. ASSUME NEW bps \in ProtocolFees, SetProtocolFeeBps(bps) PROVE Backed'
  BY <1>1, <1>3, RestBacked DEF SetProtocolFeeBps, givenVars
<1>4. ASSUME NEW from \in Users, NEW to \in Accounts, NEW n \in SentXlm, SendXlm(from, to, n)
      PROVE  Backed'
  <2>1. n \in Nat
    BY <1>4 DEF SendXlm
  <2>2. accruedFees' >= 0 /\ givenXlm' >= 0 /\ givenSxlm' >= 0
    BY <1>1, <1>4, <2>1 DEF SendXlm, feeVars
  <2> QED
    BY <1>4, <2>2, RestBacked DEF SendXlm
<1>5. ASSUME NEW from \in Users, NEW to \in Accounts, NEW n \in SentSxlm, SendSxlm(from, to, n)
      PROVE  Backed'
  <2>1. n \in Nat
    BY <1>5 DEF SendSxlm
  <2>2. accruedFees' >= 0 /\ givenXlm' >= 0 /\ givenSxlm' >= 0
    BY <1>1, <1>5, <2>1 DEF SendSxlm, feeVars
  <2> QED
    BY <1>5, <2>2, RestBacked DEF SendSxlm
<1>6. CASE UNCHANGED vars
  BY <1>1, <1>6, RestBacked DEF vars, feeVars, givenVars
<1>7. CASE Next
  BY <1>2, <1>3, <1>4, <1>5, <1>7, AddBacked, RemoveBacked, SwapXlmBacked, SwapSxlmBacked
     DEF Next
<1> QED
  BY <1>6, <1>7

LEMMA AlwaysBacked == ASSUME CutWithinFee PROVE Spec => [](Inv /\ Backed)
<1>1. Init => CutInv
  BY ConstantTypes DEF Init, CutInv, CutWithinFee
<1>2. CutInv /\ [Next]_vars => CutInv'
  BY DEF CutInv, CutWithinFee, Next, vars, feeVars, AddLiquidity, RemoveLiquidity, SwapXlmToSxlm,
     SwapSxlmToXlm, CollectProtocolFees, SetProtocolFeeBps, SendXlm, SendSxlm
<1>3. Init => Backed
  <2>1. Init => SumFunction(lpBalance) = 0
    BY FiniteUsers, SumOfZeros DEF Init
  <2> QED
    BY <2>1, ConstantTypes DEF Init, Backed, SharesAreBacked
<1> QED
  BY <1>1, <1>2, <1>3, InitInv, NextInv, NextBacked, PTL DEF Spec

\* As long as the protocol's cut is a part of the swap fee, no reserve, share or accrued
\* fee ever falls below zero.
THEOREM TypeCorrect == ASSUME CutWithinFee PROVE Spec => []TypeOK
<1>1. Inv /\ Backed => TypeOK
  BY SharesCover DEF Inv, TokensInv, ReservesInv, FeesInv, GivenInv, Backed, TypeOK
<1> QED
  BY <1>1, AlwaysBacked, PTL

\* And the shares add up to their total, with something of both tokens behind them for
\* as long as there are any and nothing left over when there are none.
THEOREM SharesAlwaysBacked == ASSUME CutWithinFee PROVE Spec => []SharesAreBacked
<1>1. Backed => SharesAreBacked
  BY DEF Backed
<1> QED
  BY <1>1, AlwaysBacked, PTL

----------------------------------------------------------------------------
(* What the backend shows of the pool. *)

\* The backend's division is the contract's.
LEMMA SameDivision ==
    ASSUME NEW n \in Nat, NEW d \in Nat \ {0}
    PROVE  n \div d = TruncDiv(n, d)
BY DEF TruncDiv, Magnitude

\* A multiple is divided without a rest.
LEMMA WholeQuotient ==
    ASSUME NEW d \in Nat \ {0}, NEW n \in Nat
    PROVE  (d * n) \div d = n
<1> DEFINE q == TruncDiv(d * n, d)
<1>1. d * n \in Nat /\ d * n = n * d /\ n + 1 \in Nat
  OBVIOUS
<1>2. q \in Nat /\ (q >= n <=> d * n >= n * d) /\ (q >= n + 1 <=> d * n >= (n + 1) * d)
  BY <1>1, TruncDivOfNat
<1>3. (n + 1) * d = d * n + d
  OBVIOUS
<1>4. (d * n) \div d = q
  BY <1>1, SameDivision
<1> HIDE DEF q
<1> QED
  BY <1>1, <1>2, <1>3, <1>4

\* What a transfer leaves its sender and its recipient.
LEMMA GotOf ==
    ASSUME NEW bal \in [Accounts -> Nat], NEW user \in Users, NEW n \in Nat
    PROVE  /\ bal[user] >= n => Moved(bal, user, PoolContract, n)[user] - bal[user] = -n
           /\ bal[PoolContract] >= n => Moved(bal, PoolContract, user, n)[user] - bal[user] = n
<1>1. user \in Accounts /\ PoolContract \in Accounts /\ user # PoolContract
  BY ConstantTypes
<1>2. bal[user] \in Nat
  BY <1>1
<1>3. bal[user] >= n => Moved(bal, user, PoolContract, n)[user] = bal[user] - n
  BY <1>1, MovedType
<1>4. bal[PoolContract] >= n => Moved(bal, PoolContract, user, n)[user] = bal[user] + n
  BY <1>1, MovedType
<1> QED
  BY <1>2, <1>3, <1>4

\* When lp of t shares leave a reserve of r with no more than their part of it, the part
\* of b other shares is not lowered.
LEMMA LeaverHarmsNobody ==
    ASSUME NEW r \in Nat, NEW t \in Nat, NEW lp \in Nat, NEW b \in Nat, NEW out \in Nat,
           lp < t, out <= r, out * t <= lp * r
    PROVE  (b * (r - out)) \div (t - lp) >= (b * r) \div t
<1> DEFINE k == TruncDiv(b * r, t)
           left == r - out
           rest == t - lp
<1>1. /\ b * r \in Nat /\ t \in Nat \ {0} /\ rest \in Nat \ {0}
      /\ left \in Nat /\ b * left \in Nat
  OBVIOUS
<1>2. k \in Nat /\ k * t <= b * r
  BY <1>1, TruncDivOfNat
<1>3. left * t >= r * rest
  <2>1. left * t = r * t - out * t /\ r * rest = r * t - lp * r
    OBVIOUS
  <2>2. r * t \in Int /\ out * t \in Int /\ lp * r \in Int
    OBVIOUS
  <2> QED
    BY <2>1, <2>2
<1> HIDE DEF k, left, rest
<1>4. k * rest <= b * left
  <2>1. (k * t) * rest <= (b * r) * rest
    BY <1>1, <1>2, FactorOrder
  <2>2. b * (r * rest) <= b * (left * t)
    <3> DEFINE u == r * rest
               v == left * t
    <3>1. u \in Nat /\ v \in Nat /\ u <= v
      BY <1>1, <1>3
    <3> HIDE DEF u, v
    <3>2. b * u <= b * v
      BY <3>1
    <3> QED
      BY <3>2 DEF u, v
  <2>3. /\ (k * t) * rest = (k * rest) * t /\ (b * r) * rest = b * (r * rest)
        /\ b * (left * t) = (b * left) * t
    BY <1>1, <1>2
  <2>4. (k * rest) * t \in Int /\ b * (r * rest) \in Int /\ (b * left) * t \in Int
    BY <1>1, <1>2
  <2>5. (k * rest) * t <= (b * left) * t
    BY <2>1, <2>2, <2>3, <2>4
  <2>6. k * rest \in Int /\ b * left \in Int
    BY <1>1, <1>2
  <2> QED
    BY <1>1, <2>5, <2>6, FactorOrder
<1>5. TruncDiv(b * left, rest) >= k
  BY <1>1, <1>2, <1>4, TruncDivOfNat
<1>6. (b * r) \div t = k /\ (b * left) \div rest = TruncDiv(b * left, rest)
  BY <1>1, SameDivision DEF k
<1> QED
  BY <1>5, <1>6 DEF left, rest

\* Whoever leaves with all of their shares gets what was shown, and harms nobody.
LEMMA LeaverIsPaid ==
    ASSUME Inv, Backed, Backed', NEW user \in Users
    PROVE  ShareIsPaid(user)
<1> DEFINE lp == lpBalance[user]
           t == totalLp
<1> SUFFICES ASSUME RemoveLiquidity(user, lp)
             PROVE
        /\ Got(user, xlm) = ShownXlm(user) /\ Got(user, sxlm) = ShownSxlm(user)
        /\ \A other \in Users \ {user} :
              ShownXlm(other)' >= ShownXlm(other) /\ ShownSxlm(other)' >= ShownSxlm(other)
  BY DEF ShareIsPaid, RemoveRoute
<1> DEFINE xOut == TruncDiv(lp * reserveXlm, t)
           sOut == TruncDiv(lp * reserveSxlm, t)
<1>1. /\ lp > 0 /\ t # 0 /\ xOut > 0 /\ sOut > 0
      /\ reserveXlm' = reserveXlm - xOut /\ reserveSxlm' = reserveSxlm - sOut
      /\ totalLp' = t - lp
      /\ lpBalance' = [lpBalance EXCEPT ![user] = @ - lp]
      /\ xlm[PoolContract] >= xOut /\ sxlm[PoolContract] >= sOut
      /\ xlm' = Moved(xlm, PoolContract, user, xOut)
      /\ sxlm' = Moved(sxlm, PoolContract, user, sOut)
  BY DEF RemoveLiquidity
<1>2. /\ t \in Nat \ {0} /\ lp \in Nat \ {0} /\ lp <= t
      /\ \A u \in Users : lpBalance[u] \in Nat /\ lpBalance[u] <= t
      /\ reserveXlm \in Nat \ {0} /\ reserveSxlm \in Nat \ {0}
      /\ xlm \in [Accounts -> Nat] /\ sxlm \in [Accounts -> Nat]
  <2>1. t \in Nat /\ lpBalance \in [Users -> Nat] /\ \A u \in Users : lpBalance[u] <= t
    BY SharesCover DEF Backed
  <2>2. reserveXlm > 0 /\ reserveSxlm > 0 /\ reserveXlm \in Int /\ reserveSxlm \in Int
    BY <1>1, <2>1 DEF Backed, SharesAreBacked, Inv, ReservesInv
  <2> QED
    BY <1>1, <2>1, <2>2 DEF Inv, TokensInv
<1> HIDE DEF lp, t
<1>3. /\ xOut \in Nat /\ xOut * t <= lp * reserveXlm /\ xOut <= reserveXlm
      /\ sOut \in Nat /\ sOut * t <= lp * reserveSxlm /\ sOut <= reserveSxlm
  <2>1. lp * reserveXlm \in Nat /\ lp * reserveSxlm \in Nat
    BY <1>2
  <2>2. xOut \in Nat /\ xOut * t <= lp * reserveXlm /\ sOut \in Nat /\ sOut * t <= lp * reserveSxlm
    BY <1>2, <2>1, TruncDivOfNat
  <2>3. /\ lp < t => xOut < reserveXlm /\ sOut < reserveSxlm
        /\ lp = t => xOut = reserveXlm /\ sOut = reserveSxlm
    BY <1>2, PayoutLeavesBacking
  <2> HIDE DEF xOut, sOut
  <2> QED
    BY <1>2, <2>2, <2>3
<1>4. ShownXlm(user) = xOut /\ ShownSxlm(user) = sOut
  <2>1. lp * reserveXlm \in Nat /\ lp * reserveSxlm \in Nat /\ t > 0
    BY <1>2
  <2>2. (lp * reserveXlm) \div t = xOut /\ (lp * reserveSxlm) \div t = sOut
    BY <1>2, <2>1, SameDivision
  <2> HIDE DEF xOut, sOut
  <2> QED
    BY <2>1, <2>2 DEF ShownXlm, ShownSxlm, lp, t
<1> HIDE DEF xOut, sOut
<1>5. Got(user, xlm) = xOut /\ Got(user, sxlm) = sOut
  BY <1>1, <1>2, <1>3, GotOf DEF Got
<1>6. ASSUME NEW other \in Users \ {user}
      PROVE  ShownXlm(other)' >= ShownXlm(other) /\ ShownSxlm(other)' >= ShownSxlm(other)
  <2> DEFINE b == lpBalance[other]
  <2>1. b \in Nat /\ b <= t /\ lpBalance'[other] = b
    BY <1>1, <1>2, <1>6 DEF Backed
  <2> HIDE DEF b
  <2>2. ShownXlm(other) = (b * reserveXlm) \div t /\ ShownSxlm(other) = (b * reserveSxlm) \div t
    BY <1>2 DEF ShownXlm, ShownSxlm, b, t
  <2>3. CASE lp < t
    <3>1. /\ ShownXlm(other)' = (b * (reserveXlm - xOut)) \div (t - lp)
          /\ ShownSxlm(other)' = (b * (reserveSxlm - sOut)) \div (t - lp)
      BY <1>1, <1>2, <2>1, <2>3 DEF ShownXlm, ShownSxlm, t
    <3>2. /\ (b * (reserveXlm - xOut)) \div (t - lp) >= (b * reserveXlm) \div t
          /\ (b * (reserveSxlm - sOut)) \div (t - lp) >= (b * reserveSxlm) \div t
      BY <1>2, <1>3, <2>1, <2>3, LeaverHarmsNobody
    <3> QED
      BY <2>2, <3>1, <3>2
  <2>4. CASE lp = t
    <3>1. totalLp' = 0
      BY <1>1, <1>2, <2>4
    <3>2. b = 0
      <4>1. lpBalance'[other] <= totalLp'
        BY SharesCoverNext
      <4> QED
        BY <2>1, <3>1, <4>1
    <3>3. ShownXlm(other)' = 0 /\ ShownSxlm(other)' = 0
      BY <3>1 DEF ShownXlm, ShownSxlm
    <3>4. ShownXlm(other) = 0 /\ ShownSxlm(other) = 0
      BY <1>2, <2>2, <3>2
    <3> QED
      BY <3>3, <3>4
  <2> QED
    BY <1>2, <2>3, <2>4
<1> QED
  BY <1>4, <1>5, <1>6

\* When a deposit of d mints lp shares with no more than what d and one unit buy, the part
\* of b and lp shares is worth less than what b shares were shown, the deposit and two units.
LEMMA DepositorGainsLittle ==
    ASSUME NEW r \in Nat, NEW t \in Nat \ {0}, NEW b \in Nat, NEW lp \in Nat, NEW d \in Nat,
           b <= t, lp * r <= (d + 1) * t
    PROVE  ((b + lp) * (r + d)) \div (t + lp) <= ((b * r) \div t) + d + 1
<1> DEFINE k == TruncDiv(b * r, t)
           m == t + lp
           o == t - b
           w == (b + lp) * (r + d)
<1>1. /\ b * r \in Nat /\ m \in Nat \ {0} /\ o \in Nat /\ o <= m /\ b + lp = m - o
      /\ b + lp \in Nat /\ r + d \in Nat
  OBVIOUS
<1>2. k \in Nat /\ b * r < (k + 1) * t
  BY <1>1, TruncDivOfNat
<1>3. w \in Nat
  BY <1>1
<1>4. (r + d + 1) * t >= r * m
  <2>1. (r + d + 1) * t = r * t + (d + 1) * t /\ r * m = r * t + lp * r
    OBVIOUS
  <2>2. r * t \in Int /\ (d + 1) * t \in Int /\ lp * r \in Int
    OBVIOUS
  <2> QED
    BY <2>1, <2>2
<1>5. o * r > (r - (k + 1)) * t
  <2>1. o * r = r * t - b * r /\ (r - (k + 1)) * t = r * t - (k + 1) * t
    BY <1>2
  <2>2. r * t \in Int /\ (k + 1) * t \in Int
    BY <1>2
  <2> QED
    BY <1>1, <1>2, <2>1, <2>2
<1> HIDE DEF k, m, o, w
<1>6. (r - (k + 1)) * m < o * (r + d + 1)
  <2>1. ((r - (k + 1)) * t) * m < (o * r) * m
    <3>1. (r - (k + 1)) * t \in Int /\ o * r \in Int
      BY <1>1, <1>2
    <3> QED
      BY <1>1, <1>5, <3>1, FactorOrder
  <2>2. o * (r * m) <= o * ((r + d + 1) * t)
    <3> DEFINE u == r * m
               v == (r + d + 1) * t
    <3>1. u \in Nat /\ v \in Nat /\ u <= v
      BY <1>1, <1>4
    <3> HIDE DEF u, v
    <3>2. o * u <= o * v
      BY <1>1, <3>1
    <3> QED
      BY <3>2 DEF u, v
  <2>3. /\ ((r - (k + 1)) * t) * m = ((r - (k + 1)) * m) * t
        /\ (o * r) * m = o * (r * m)
        /\ o * ((r + d + 1) * t) = (o * (r + d + 1)) * t
    BY <1>1, <1>2
  <2>4. /\ ((r - (k + 1)) * m) * t \in Int /\ o * (r * m) \in Int
        /\ (o * (r + d + 1)) * t \in Int
        /\ (r - (k + 1)) * m \in Int /\ o * (r + d + 1) \in Int
    BY <1>1, <1>2
  <2>5. ((r - (k + 1)) * m) * t < (o * (r + d + 1)) * t
    BY <2>1, <2>2, <2>3, <2>4
  <2> QED
    BY <2>4, <2>5, FactorOrder
<1>7. w < (k + d + 2) * m
  <2>1. w = (m - o) * (r + d)
    BY <1>1 DEF w
  <2>2. (m - o) * (r + d) = m * (r + d) - (o * (r + d + 1) - o)
    BY <1>1
  <2>3. (k + d + 2) * m = m * (r + d) - ((r - (k + 1)) * m - m)
    BY <1>1, <1>2
  <2>4. /\ m * (r + d) \in Int /\ o * (r + d + 1) \in Int /\ (r - (k + 1)) * m \in Int
        /\ (k + d + 2) * m \in Int
    BY <1>1, <1>2
  <2> QED
    BY <1>1, <1>6, <2>1, <2>2, <2>3, <2>4
<1>8. TruncDiv(w, m) <= k + d + 1
  <2>1. TruncDiv(w, m) \in Nat /\ (TruncDiv(w, m) >= k + d + 2 <=> w >= (k + d + 2) * m)
    <3>1. k + d + 2 \in Nat
      BY <1>2
    <3> QED
      BY <1>1, <1>3, <3>1, TruncDivOfNat
  <2>2. (k + d + 2) * m \in Int
    BY <1>1, <1>2
  <2> QED
    BY <1>2, <1>3, <1>7, <2>1, <2>2
<1>9. (b * r) \div t = k
  BY <1>1, SameDivision DEF k
<1>10. w \div m = TruncDiv(w, m)
  BY <1>1, <1>3, SameDivision
<1> QED
  BY <1>8, <1>9, <1>10 DEF w, m

\* The shares of a deposit into a pool with shares, against each side of it.
LEMMA SharesOfDeposit ==
    ASSUME NEW x \in Nat, NEW s \in Nat, totalLp \in Nat \ {0},
           reserveXlm \in Nat \ {0}, reserveSxlm \in Nat \ {0}
    PROVE  /\ AddedShares(x, s) \in Nat /\ AddedXlm(x, s) \in Nat /\ AddedSxlm(x, s) \in Nat
           /\ AddedShares(x, s) * reserveXlm <= (AddedXlm(x, s) + 1) * totalLp
           /\ AddedShares(x, s) * reserveSxlm <= (AddedSxlm(x, s) + 1) * totalLp
<1> DEFINE t == totalLp
           lp == AddedShares(x, s)
           dx == AddedXlm(x, s)
           ds == AddedSxlm(x, s)
<1>1. t # 0 /\ t \in Nat \ {0} /\ x * t \in Nat /\ s * t \in Nat
  OBVIOUS
<1>2. /\ TruncDiv(x * t, reserveXlm) \in Nat /\ TruncDiv(x * t, reserveXlm) * reserveXlm <= x * t
      /\ TruncDiv(s * t, reserveSxlm) \in Nat /\ TruncDiv(s * t, reserveSxlm) * reserveSxlm <= s * t
  BY <1>1, TruncDivOfNat
<1>3. CASE LimitedByXlm(x, s)
  <2>1. /\ lp = TruncDiv(x * t, reserveXlm)
        /\ dx = x /\ ds = TruncDiv(lp * reserveSxlm, t)
    BY <1>1, <1>3 DEF AddedShares, AddedXlm, AddedSxlm
  <2> HIDE DEF lp, dx, ds, t
  <2>2. lp \in Nat /\ lp * reserveXlm <= dx * t /\ lp * reserveSxlm \in Nat
    BY <1>2, <2>1
  <2>3. ds \in Nat /\ lp * reserveSxlm < (ds + 1) * t
    BY <1>1, <2>1, <2>2, TruncDivOfNat
  <2>4. dx * t <= (dx + 1) * t /\ dx * t \in Int /\ (dx + 1) * t \in Int /\ lp * reserveXlm \in Int
    BY <1>1, <2>1, <2>2
  <2>5. lp * reserveXlm <= (dx + 1) * t /\ lp * reserveSxlm <= (ds + 1) * t
    <3>1. (ds + 1) * t \in Int
      BY <1>1, <2>3
    <3> QED
      BY <2>2, <2>3, <2>4, <3>1
  <2> QED
    BY <2>1, <2>2, <2>3, <2>5 DEF lp, dx, ds, t
<1>4. CASE ~LimitedByXlm(x, s)
  <2>1. /\ lp = TruncDiv(s * t, reserveSxlm)
        /\ ds = s /\ dx = TruncDiv(lp * reserveXlm, t)
    BY <1>1, <1>4 DEF AddedShares, AddedXlm, AddedSxlm
  <2> HIDE DEF lp, dx, ds, t
  <2>2. lp \in Nat /\ lp * reserveSxlm <= ds * t /\ lp * reserveXlm \in Nat
    BY <1>2, <2>1
  <2>3. dx \in Nat /\ lp * reserveXlm < (dx + 1) * t
    BY <1>1, <2>1, <2>2, TruncDivOfNat
  <2>4. ds * t <= (ds + 1) * t /\ ds * t \in Int /\ (ds + 1) * t \in Int /\ lp * reserveSxlm \in Int
    BY <1>1, <2>1, <2>2
  <2>5. lp * reserveXlm <= (dx + 1) * t /\ lp * reserveSxlm <= (ds + 1) * t
    <3>1. (dx + 1) * t \in Int
      BY <1>1, <2>3
    <3> QED
      BY <2>2, <2>3, <2>4, <3>1
  <2> QED
    BY <2>1, <2>2, <2>3, <2>5 DEF lp, dx, ds, t
<1> QED
  BY <1>3, <1>4

\* A deposit raises what the depositor is shown by no more than its worth and one unit.
LEMMA DepositIsShown ==
    ASSUME Inv, Backed, NEW user \in Users
    PROVE  DepositIsWorthIt(user)
<1> SUFFICES ASSUME NEW x \in XlmAmounts, NEW s \in SxlmAmounts, AddLiquidity(user, x, s)
             PROVE  /\ ShownXlm(user)' - ShownXlm(user) <= 1 - Got(user, xlm)
                    /\ ShownSxlm(user)' - ShownSxlm(user) <= 1 - Got(user, sxlm)
  BY DEF DepositIsWorthIt, AddRoute
<1> DEFINE lp == AddedShares(x, s)
           dx == AddedXlm(x, s)
           ds == AddedSxlm(x, s)
           t == totalLp
           b == lpBalance[user]
<1>1. /\ x > 0 /\ s > 0 /\ lp > 0 /\ dx > 0 /\ ds > 0
      /\ t # 0 => reserveXlm # 0 /\ reserveSxlm # 0
      /\ xlm[user] >= dx /\ sxlm[user] >= ds
      /\ xlm' = Moved(xlm, user, PoolContract, dx)
      /\ sxlm' = Moved(sxlm, user, PoolContract, ds)
      /\ reserveXlm' = reserveXlm + dx /\ reserveSxlm' = reserveSxlm + ds
      /\ totalLp' = t + lp
      /\ lpBalance' = [lpBalance EXCEPT ![user] = @ + lp]
  BY DEF AddLiquidity
<1>2. /\ x \in Nat /\ s \in Nat /\ lp \in Nat \ {0} /\ dx \in Nat /\ ds \in Nat
  <2>1. x \in Int /\ s \in Int /\ ReservesInv /\ SharesInv
    BY ConstantTypes DEF Inv
  <2>2. lp \in Int /\ dx \in Int /\ ds \in Int
    BY <1>1, <2>1, AddedTypes
  <2> QED
    BY <1>1, <2>1, <2>2
<1>3. /\ t \in Nat /\ b \in Nat /\ b <= t /\ reserveXlm \in Nat /\ reserveSxlm \in Nat
      /\ (t > 0 <=> reserveXlm > 0) /\ (t > 0 <=> reserveSxlm > 0)
      /\ lpBalance \in [Users -> Nat]
      /\ xlm \in [Accounts -> Nat] /\ sxlm \in [Accounts -> Nat]
  BY SharesCover DEF Backed, SharesAreBacked, Inv, ReservesInv, TokensInv
<1>4. t > 0 => lp * reserveXlm <= (dx + 1) * t /\ lp * reserveSxlm <= (ds + 1) * t
  <2>1. t > 0 => t \in Nat \ {0} /\ reserveXlm \in Nat \ {0} /\ reserveSxlm \in Nat \ {0}
    BY <1>3
  <2> QED
    BY <1>2, <2>1, SharesOfDeposit
<1> HIDE DEF lp, dx, ds
<1>5. Got(user, xlm) = -dx /\ Got(user, sxlm) = -ds
  BY <1>1, <1>2, <1>3, GotOf DEF Got
<1>6. lpBalance'[user] = b + lp
  BY <1>1, <1>3
<1>7. totalLp' > 0
  BY <1>1, <1>2, <1>3
<1>8. /\ ShownXlm(user)' = ((b + lp) * (reserveXlm + dx)) \div (t + lp)
      /\ ShownSxlm(user)' = ((b + lp) * (reserveSxlm + ds)) \div (t + lp)
  BY <1>1, <1>6, <1>7 DEF ShownXlm, ShownSxlm
<1>9. CASE t = 0
  <2>1. b = 0 /\ reserveXlm = 0 /\ reserveSxlm = 0 /\ ShownXlm(user) = 0 /\ ShownSxlm(user) = 0
    BY <1>3, <1>9 DEF ShownXlm, ShownSxlm
  <2>2. ShownXlm(user)' = (lp * dx) \div lp /\ ShownSxlm(user)' = (lp * ds) \div lp
    BY <1>2, <1>3, <1>8, <1>9, <2>1
  <2> HIDE DEF b, t
  <2>3. (lp * dx) \div lp = dx /\ (lp * ds) \div lp = ds
    BY <1>2, WholeQuotient
  <2> QED
    BY <1>2, <1>5, <2>1, <2>2, <2>3
<1>10. CASE t > 0
  <2>1. ShownXlm(user) = (b * reserveXlm) \div t /\ ShownSxlm(user) = (b * reserveSxlm) \div t
    BY <1>10 DEF ShownXlm, ShownSxlm
  <2>2. t \in Nat \ {0}
    BY <1>3, <1>10
  <2> HIDE DEF b, t
  <2>3. /\ ShownXlm(user)' <= ShownXlm(user) + dx + 1
        /\ ShownSxlm(user)' <= ShownSxlm(user) + ds + 1
    BY <1>2, <1>3, <1>4, <1>8, <1>10, <2>1, <2>2, DepositorGainsLittle
  <2>4. /\ b * reserveXlm \in Nat /\ b * reserveSxlm \in Nat
        /\ (b + lp) * (reserveXlm + dx) \in Nat /\ (b + lp) * (reserveSxlm + ds) \in Nat
        /\ t + lp \in Nat \ {0}
    BY <1>2, <1>3
  <2>5. /\ ShownXlm(user)' \in Int /\ ShownXlm(user) \in Int
        /\ ShownSxlm(user)' \in Int /\ ShownSxlm(user) \in Int
    BY <1>8, <2>1, <2>2, <2>4
  <2> QED
    BY <1>2, <1>5, <2>3, <2>5
<1> QED
  BY <1>3, <1>9, <1>10

\* Less one unit, a swap of a between reserves of rIn and rOut brings less than the price
\* between the reserves.
LEMMA OutBelowSpot ==
    ASSUME NEW rIn \in Nat \ {0}, NEW rOut \in Nat \ {0}, NEW a \in Nat
    PROVE  (SwapOut(rIn, rOut, a) - 1) * (rIn + a) < rOut * a
<1> DEFINE q == TruncDiv(rIn * rOut, rIn + a)
           d == rIn + a
<1>1. rIn * rOut \in Nat /\ d \in Nat \ {0}
  OBVIOUS
<1>2. q \in Nat /\ rIn * rOut < (q + 1) * d
  BY <1>1, TruncDivOfNat
<1>3. SwapOut(rIn, rOut, a) - 1 = rOut - (q + 1)
  BY <1>2 DEF SwapOut
<1>4. rOut * d = rIn * rOut + rOut * a
  OBVIOUS
<1> HIDE DEF q, d
<1>5. (rOut - (q + 1)) * d = rOut * d - (q + 1) * d
  BY <1>1, <1>2
<1>6. rOut * d \in Int /\ (q + 1) * d \in Int /\ rOut * a \in Int
  BY <1>1, <1>2
<1> QED
  BY <1>1, <1>2, <1>3, <1>4, <1>5, <1>6 DEF d

\* Factors on both sides of an order.
LEMMA FactorInFront ==
    ASSUME NEW a \in Int, NEW b \in Int, NEW t \in Nat, a <= b
    PROVE  t * a <= t * b /\ t * a \in Int /\ t * b \in Int
OBVIOUS

\* The price that is shown of reserves of x and s is not beaten by buying sXLM ...
LEMMA BuyerPaysThePrice ==
    ASSUME NEW x \in Nat \ {0}, NEW s \in Nat \ {0}, NEW a \in Nat, NEW n \in Nat, a <= n,
           NEW p \in Nat, p * s <= x * PRICE_PRECISION,
           SwapOut(x, s, a) > 0
    PROVE  (SwapOut(x, s, a) - 1) * p <= n * PRICE_PRECISION
<1> DEFINE P == PRICE_PRECISION
           k == SwapOut(x, s, a) - 1
<1>1. P \in Nat \ {0} /\ k \in Nat /\ k * (x + a) < s * a
  <2>1. SwapOut(x, s, a) \in Int
    BY SwapOutType
  <2>2. k * (x + a) < s * a
    BY OutBelowSpot
  <2>3. k \in Nat
    BY <2>1
  <2>4. P \in Nat \ {0}
    BY LiquidityRoutesAssumption DEF LiquidityRoutesAssumption
  <2> QED
    BY <2>2, <2>3, <2>4
<1> HIDE DEF k, P
<1>2. k * (p * s) <= k * (x * P)
  BY <1>1, FactorInFront DEF P
<1>3. (k * x) * P <= (s * n) * P
  <2>1. k * x <= k * (x + a)
    BY <1>1
  <2>2. s * a <= s * n
    OBVIOUS
  <2>3. k * x \in Int /\ k * (x + a) \in Int /\ s * a \in Int /\ s * n \in Int
    BY <1>1
  <2>4. k * x <= s * n
    BY <1>1, <2>1, <2>2, <2>3
  <2> QED
    BY <1>1, <2>3, <2>4, FactorOrder
<1>4. /\ k * (p * s) = (k * p) * s /\ k * (x * P) = (k * x) * P /\ (s * n) * P = (n * P) * s
      /\ (k * p) * s \in Int /\ (k * x) * P \in Int /\ (n * P) * s \in Int
      /\ k * p \in Int /\ n * P \in Int
  BY <1>1
<1>5. (k * p) * s <= (n * P) * s
  BY <1>2, <1>3, <1>4
<1>6. k * p <= n * P
  BY <1>4, <1>5, FactorOrder
<1> QED
  BY <1>6 DEF k, P

\* ... nor by selling it.
LEMMA SellerGetsThePrice ==
    ASSUME NEW x \in Nat \ {0}, NEW s \in Nat \ {0}, NEW a \in Nat, NEW n \in Nat, a <= n,
           NEW p \in Nat, x * PRICE_PRECISION < (p + 1) * s,
           SwapOut(s, x, a) > 0
    PROVE  (SwapOut(s, x, a) - 1) * PRICE_PRECISION < n * (p + 1)
<1> DEFINE P == PRICE_PRECISION
           k == SwapOut(s, x, a) - 1
           next == p + 1
<1>1. P \in Nat \ {0} /\ k \in Nat /\ k * (s + a) < x * a /\ next \in Nat
  <2>1. SwapOut(s, x, a) \in Int
    BY SwapOutType
  <2>2. k * (s + a) < x * a
    BY OutBelowSpot
  <2>3. k \in Nat
    BY <2>1
  <2>4. P \in Nat \ {0}
    BY LiquidityRoutesAssumption DEF LiquidityRoutesAssumption
  <2> QED
    BY <2>2, <2>3, <2>4
<1>2. x * P < next * s
  OBVIOUS
<1> HIDE DEF k, P, next
<1>3. (k * s) * P < (x * a) * P
  <2>1. k * s <= k * (s + a)
    BY <1>1
  <2>2. k * s \in Int /\ k * (s + a) \in Int /\ x * a \in Int
    BY <1>1
  <2>3. k * s < x * a
    BY <1>1, <2>1, <2>2
  <2> QED
    BY <1>1, <2>2, <2>3, FactorOrder
<1>4. a * (x * P) <= a * (next * s)
  <2>1. x * P \in Int /\ next * s \in Int
    BY <1>1
  <2> QED
    BY <1>2, <2>1, FactorInFront
<1>5. (next * s) * a <= (next * s) * n
  <2>1. next * s \in Nat
    BY <1>1
  <2> QED
    BY <2>1, FactorInFront
<1>6. /\ (k * s) * P = (k * P) * s /\ (x * a) * P = a * (x * P)
      /\ a * (next * s) = (next * s) * a /\ (next * s) * n = (n * next) * s
      /\ (k * P) * s \in Int /\ a * (x * P) \in Int /\ a * (next * s) \in Int
      /\ (n * next) * s \in Int /\ k * P \in Int /\ n * next \in Int
  BY <1>1
<1>7. (k * P) * s < (n * next) * s
  BY <1>3, <1>4, <1>5, <1>6
<1>8. k * P < n * next
  BY <1>6, <1>7, FactorOrder
<1> QED
  BY <1>8 DEF k, P, next

\* The price that is shown is the quotient of the reserves.
LEMMA ShownPriceOf ==
    ASSUME reserveXlm \in Nat, reserveSxlm \in Nat \ {0}
    PROVE  /\ ShownPrice \in Nat
           /\ ShownPrice * reserveSxlm <= reserveXlm * PRICE_PRECISION
           /\ reserveXlm * PRICE_PRECISION < (ShownPrice + 1) * reserveSxlm
<1>1. reserveXlm * PRICE_PRECISION \in Nat
  BY LiquidityRoutesAssumption DEF LiquidityRoutesAssumption
<1>2. ShownPrice = TruncDiv(reserveXlm * PRICE_PRECISION, reserveSxlm)
  BY <1>1, SameDivision DEF ShownPrice
<1> QED
  BY <1>1, <1>2, TruncDivOfNat

\* No trader gets less than they insisted on, nor beats the price by more than one unit.
LEMMA TradesAtThePrice ==
    ASSUME Inv, NEW user \in Users
    PROVE  PriceIsNotBeaten(user)
<1>1. ASSUME NEW min \in MinOuts, NEW n \in XlmAmounts, SwapXlmToSxlm(user, n, min)
      PROVE  /\ Got(user, sxlm) >= min
             /\ (Got(user, sxlm) - 1) * ShownPrice <= n * PRICE_PRECISION
  <2> DEFINE a == AfterFee(n)
             out == SwapOut(reserveXlm, reserveSxlm, a)
  <2>1. /\ out > 0 /\ out >= min /\ n > 0 /\ reserveXlm > 0 /\ reserveSxlm > 0
        /\ sxlm[PoolContract] >= out /\ sxlm' = Moved(sxlm, PoolContract, user, out)
    BY <1>1 DEF SwapXlmToSxlm
  <2>2. /\ n \in Nat /\ reserveXlm \in Nat \ {0} /\ reserveSxlm \in Nat \ {0}
        /\ sxlm \in [Accounts -> Nat]
    BY <2>1, ConstantTypes DEF Inv, ReservesInv, TokensInv
  <2>3. a \in Nat /\ a <= n
    BY <2>2, AfterFeeType
  <2> HIDE DEF a
  <2>4. out \in Nat
    BY <2>1, <2>2, <2>3, SwapOutType
  <2>5. (out - 1) * ShownPrice <= n * PRICE_PRECISION
    BY <2>1, <2>2, <2>3, ShownPriceOf, BuyerPaysThePrice
  <2> HIDE DEF out
  <2>6. Got(user, sxlm) = out
    BY <2>1, <2>2, <2>4, GotOf DEF Got
  <2> QED
    BY <2>1, <2>5, <2>6
<1>2. ASSUME NEW min \in MinOuts, NEW n \in SxlmAmounts, SwapSxlmToXlm(user, n, min)
      PROVE  /\ Got(user, xlm) >= min
             /\ (Got(user, xlm) - 1) * PRICE_PRECISION < n * (ShownPrice + 1)
  <2> DEFINE a == AfterFee(n)
             out == SwapOut(reserveSxlm, reserveXlm, a)
  <2>1. /\ out > 0 /\ out >= min /\ n > 0 /\ reserveXlm > 0 /\ reserveSxlm > 0
        /\ xlm[PoolContract] >= out /\ xlm' = Moved(xlm, PoolContract, user, out)
    BY <1>2 DEF SwapSxlmToXlm
  <2>2. /\ n \in Nat /\ reserveXlm \in Nat \ {0} /\ reserveSxlm \in Nat \ {0}
        /\ xlm \in [Accounts -> Nat]
    BY <2>1, ConstantTypes DEF Inv, ReservesInv, TokensInv
  <2>3. a \in Nat /\ a <= n
    BY <2>2, AfterFeeType
  <2> HIDE DEF a
  <2>4. out \in Nat
    BY <2>1, <2>2, <2>3, SwapOutType
  <2>5. (out - 1) * PRICE_PRECISION < n * (ShownPrice + 1)
    BY <2>1, <2>2, <2>3, ShownPriceOf, SellerGetsThePrice
  <2> HIDE DEF out
  <2>6. Got(user, xlm) = out
    BY <2>1, <2>2, <2>4, GotOf DEF Got
  <2> QED
    BY <2>1, <2>5, <2>6
<1> QED
  BY <1>1, <1>2 DEF PriceIsNotBeaten, SwapXlmRoute, SwapSxlmRoute

\* As long as the protocol's cut is a part of the swap fee, the figures that the backend
\* computes are kept by the contract: whoever leaves is paid what was shown and harms
\* nobody, nobody gains by a deposit, and no trader beats the price, each up to one unit.
THEOREM ShownFiguresAlwaysHold ==
    ASSUME CutWithinFee
    PROVE  Spec => ShownFiguresHold
<1>1. Inv /\ Backed /\ Backed' /\ [Next]_vars =>
        [\A user \in Users :
            Got(user, xlm) # 0 =>
                ShareIsPaid(user) /\ DepositIsWorthIt(user) /\ PriceIsNotBeaten(user)]_vars
  BY LeaverIsPaid, DepositIsShown, TradesAtThePrice
<1> QED
  BY <1>1, AlwaysBacked, PTL DEF Spec, ShownFiguresHold
=============================================================================
