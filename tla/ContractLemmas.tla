---------------------------- MODULE ContractLemmas ----------------------------
(***************************************************************************)
(* Lemmas about the arithmetic and the balance moves of the contracts,     *)
(* cited by the proofs of each of them, and about the finite sums by which *)
(* the books of a contract are compared with its accounts.                 *)
(***************************************************************************)
EXTENDS ContractArith, Balances, Functions, FiniteSetTheorems, TLAPS

\* Rust's truncating division of integers is an integer.
LEMMA TruncDivType ==
    ASSUME NEW n \in Int, NEW d \in Int, d # 0
    PROVE  TruncDiv(n, d) \in Int
<1> DEFINE q == Magnitude(n) \div Magnitude(d)
<1>1. Magnitude(n) \in Int /\ Magnitude(d) \in Int /\ Magnitude(d) > 0
  BY DEF Magnitude
<1>2. q \in Int
  BY <1>1
<1> QED
  BY <1>2 DEF TruncDiv

\* Truncation rounds a quotient of natural numbers down, and a quotient with a
\* positive value has a dividend and a divisor of the same sign.
LEMMA TruncDivRoundsDown ==
    ASSUME NEW n \in Int, NEW d \in Int, d > 0
    PROVE  /\ n >= 0 => TruncDiv(n, d) * d <= n
           /\ TruncDiv(n, d) > 0 => n > 0
<1>1. n >= 0 => /\ TruncDiv(n, d) = n \div d
                /\ (n \div d) * d <= n
  BY DEF TruncDiv, Magnitude
<1>2. n < 0 => TruncDiv(n, d) <= 0
  BY DEF TruncDiv, Magnitude
<1> QED
  BY <1>1, <1>2, TruncDivType DEF TruncDiv, Magnitude

\* A negative divisor gives no positive quotient of a natural number.
LEMMA TruncDivBelowZero ==
    ASSUME NEW n \in Nat, NEW d \in Int, d < 0
    PROVE  TruncDiv(n, d) <= 0
BY DEF TruncDiv, Magnitude

\* The quotient of natural numbers is the natural number that reaches a bound exactly
\* when the dividend reaches the bound times the divisor.
LEMMA TruncDivOfNat ==
    ASSUME NEW n \in Nat, NEW d \in Nat \ {0}
    PROVE  /\ TruncDiv(n, d) \in Nat
           /\ TruncDiv(n, d) * d <= n
           /\ n < (TruncDiv(n, d) + 1) * d
           /\ \A r \in Nat : TruncDiv(n, d) >= r <=> n >= r * d
<1>1. TruncDiv(n, d) = n \div d
  BY DEF TruncDiv, Magnitude
<1>2. n \div d \in Nat /\ (n % d) \in Nat /\ (n % d) < d /\ n = d * (n \div d) + (n % d)
  OBVIOUS
<1> DEFINE q == n \div d
           m == n % d
<1>3. q \in Nat /\ m \in Nat /\ m < d /\ n = d * q + m
  BY <1>2
<1> HIDE DEF q, m
<1>4. (q + 1) * d = d * q + d
  BY <1>3
<1>5. ASSUME NEW r \in Nat PROVE q >= r <=> n >= r * d
  <2>1. CASE q >= r
    <3>1. q * d >= r * d
      BY <1>3, <2>1
    <3> QED
      BY <1>3, <2>1, <3>1
  <2>2. CASE q + 1 <= r
    <3>1. (q + 1) * d <= r * d
      BY <1>3, <2>2
    <3> QED
      BY <1>3, <1>4, <2>2, <3>1
  <2> QED
    BY <1>3, <2>1, <2>2
<1>6. q * d <= n /\ n < (q + 1) * d
  BY <1>3, <1>4
<1> QED
  BY <1>1, <1>3, <1>5, <1>6 DEF q

\* The quotient does not change with the sign of both, and a positive one is of a
\* dividend and a divisor of the same sign.
LEMMA TruncDivSigns ==
    ASSUME NEW n \in Int, NEW d \in Int, d # 0
    PROVE  /\ TruncDiv(-n, -d) = TruncDiv(n, d)
           /\ TruncDiv(n, d) > 0 => (n > 0 /\ d > 0) \/ (n < 0 /\ d < 0)
<1> DEFINE q == Magnitude(n) \div Magnitude(d)
<1>1. Magnitude(n) \in Nat /\ Magnitude(d) \in Nat \ {0}
  BY DEF Magnitude
<1>2. q \in Nat /\ (Magnitude(n) = 0 => q = 0)
  BY <1>1
<1>3. Magnitude(-n) = Magnitude(n) /\ Magnitude(-d) = Magnitude(d)
  BY DEF Magnitude
<1>4. TruncDiv(n, d) = IF (n < 0) = (d < 0) THEN q ELSE -q
  BY DEF TruncDiv
<1>5. TruncDiv(-n, -d) = IF (-n < 0) = (-d < 0) THEN q ELSE -q
  BY <1>3 DEF TruncDiv
<1>6. CASE n = 0
  <2>1. q = 0
    BY <1>2, <1>6 DEF Magnitude
  <2> HIDE DEF q
  <2> QED
    BY <1>4, <1>5, <2>1
<1>7. CASE n # 0
  <2>1. (-n < 0 <=> ~(n < 0)) /\ (-d < 0 <=> ~(d < 0))
    BY <1>7
  <2> HIDE DEF q
  <2> QED
    BY <1>2, <1>4, <1>5, <1>7, <2>1
<1> QED
  BY <1>6, <1>7

\* A positive factor changes no order, neither when it is put to both sides nor when it
\* is taken from them.
LEMMA FactorOrder ==
    ASSUME NEW a \in Int, NEW b \in Int, NEW t \in Nat \ {0}
    PROVE  /\ a * t <= b * t <=> a <= b
           /\ a * t < b * t <=> a < b
           /\ a * t \in Int /\ b * t \in Int
<1>1. a <= b => a * t <= b * t
  OBVIOUS
<1>2. a < b => a * t < b * t
  OBVIOUS
<1>3. b < a => b * t < a * t
  OBVIOUS
<1>4. b <= a => b * t <= a * t
  OBVIOUS
<1>5. a * t \in Int /\ b * t \in Int
  OBVIOUS
<1> QED
  BY <1>1, <1>2, <1>3, <1>4, <1>5

\* A set of natural numbers that is not empty has a least element.
LEMMA LeastOf ==
    ASSUME NEW S \in SUBSET Nat, S # {}
    PROVE  \E least \in S : \A n \in S : least <= n
<1>1. PICK m \in S : \A n \in S : ~(<<n, m>> \in OpToRel(<, Nat))
  BY NatLessThanWellFounded, WFMin
<1>2. ASSUME NEW n \in S PROVE m <= n
  <2>1. n \in Nat /\ m \in Nat
    OBVIOUS
  <2>2. ~(n < m)
    BY <1>1, <2>1 DEF OpToRel
  <2> QED
    BY <2>1, <2>2
<1> QED
  BY <1>2

\* A covered transfer keeps every balance a natural number, takes the amount from the
\* sender, gives it to the recipient and lowers nobody else's balance.
LEMMA MovedType ==
    ASSUME NEW A, NEW bal \in [A -> Nat], NEW from \in A, NEW to \in A,
           NEW amount \in Nat, bal[from] >= amount
    PROVE  /\ Moved(bal, from, to, amount) \in [A -> Nat]
           /\ from # to =>
                /\ Moved(bal, from, to, amount)[from] = bal[from] - amount
                /\ Moved(bal, from, to, amount)[to] = bal[to] + amount
           /\ \A a \in A : a # from => Moved(bal, from, to, amount)[a] >= bal[a]
BY DEF Moved

----------------------------------------------------------------------------
(* Finite sums.  Each fact is proved by looking at a smallest part of the  *)
(* set that would refute it.                                               *)

\* Among sets of parts of a finite set there is a smallest one.
LEMMA SmallestPart ==
    ASSUME NEW S, IsFiniteSet(S), NEW B \in SUBSET SUBSET S, B # {}
    PROVE  \E s \in B : \A t \in B : t \subseteq s => t = s
<1>1. IsWellFoundedOn(StrictSubsetOrdering(S), SUBSET S)
  BY FS_FiniteSubsetsOfFinite, FS_StrictSubsetOrderingWellFounded, Zenon
<1>2. PICK s \in B : \A t \in B : ~(<<t, s>> \in StrictSubsetOrdering(S))
  BY <1>1, WFMin, Zenon
<1>3. ASSUME NEW t \in B, t \subseteq s, t # s PROVE FALSE
  BY <1>2, <1>3 DEF StrictSubsetOrdering
<1>. QED BY <1>2, <1>3

\* The element by which the folds of the community modules take a set apart.
Pick(s) == CHOOSE x \in s : TRUE

\* A nonempty set contains the element picked from it.
LEMMA PickIn == ASSUME NEW s, s # {} PROVE Pick(s) \in s
  BY DEF Pick

\* g gives every part of S the sum of f over it, as the fold computes it.
SumsParts(g, f, S) ==
    g = [s \in SUBSET S |-> IF s = {} THEN 0 ELSE f[Pick(s)] + g[s \ {Pick(s)}]]

\* The function the fold chooses.
PartSums(f, S) == CHOOSE g : SumsParts(g, f, S)

\* The sum over S is the value at S of the function the fold chooses.
LEMMA SumUnfolds ==
    ASSUME NEW f, NEW S
    PROVE  SumFunctionOnSet(f, S) = PartSums(f, S)[S]
  BY DEF SumFunctionOnSet, FoldFunctionOnSet, MapThenFoldSet, PartSums, SumsParts, Pick

\* The step of the fold at one part.
SumsPart(g, f, s) == g[s] = IF s = {} THEN 0 ELSE f[Pick(s)] + g[s \ {Pick(s)}]

\* Such a g takes that step at every part.
LEMMA PartSumAt ==
    ASSUME NEW f, NEW g, NEW S, SumsParts(g, f, S), NEW s \in SUBSET S
    PROVE  SumsPart(g, f, s)
<1> DEFINE body(x) == IF x = {} THEN 0 ELSE f[Pick(x)] + g[x \ {Pick(x)}]
<1>1. g = [x \in SUBSET S |-> body(x)]
  BY Zenon DEF SumsParts
<1> HIDE DEF body
<1>2. g[s] = body(s)
  BY <1>1, Zenon
<1> QED BY <1>2 DEF body, SumsPart

\* Two such functions agree on the parts both are defined for.
LEMMA PartSumsUnique ==
    ASSUME NEW f, NEW S, IsFiniteSet(S), NEW T \in SUBSET S, NEW g, NEW k,
           SumsParts(g, f, S), SumsParts(k, f, T), NEW t \in SUBSET T
    PROVE  g[t] = k[t]
<1> DEFINE B == {v \in SUBSET T : g[v] # k[v]}
<1>1. ASSUME B # {} PROVE FALSE
  <2>1. B \in SUBSET SUBSET S
    OBVIOUS
  <2>2. PICK u \in B : \A v \in B : v \subseteq u => v = u
    <3> HIDE DEF B
    <3> QED BY <1>1, <2>1, SmallestPart
  <2>3. u \in SUBSET T /\ u \in SUBSET S
    OBVIOUS
  <2>4. SumsPart(g, f, u) /\ SumsPart(k, f, u)
    BY <2>3, PartSumAt
  <2>5. g[u] # k[u]
    OBVIOUS
  <2>6. u # {}
    BY <2>4, <2>5 DEF SumsPart
  <2>7. Pick(u) \in u
    BY <2>6, PickIn
  <2>8. g[u \ {Pick(u)}] = k[u \ {Pick(u)}]
    BY <2>2, <2>3, <2>7
  <2> QED BY <2>4, <2>5, <2>6, <2>8 DEF SumsPart
<1> QED BY <1>1

\* There is such a function for a finite set: the one that gives every part of S
\* the sum chosen for it.
LEMMA PartSumsExist ==
    ASSUME NEW f, NEW S, IsFiniteSet(S)
    PROVE  SumsParts(PartSums(f, S), f, S)
<1> DEFINE Good(T) == \E g : SumsParts(g, f, T)
           B == {T \in SUBSET S : ~Good(T)}
<1>1. ASSUME B # {} PROVE FALSE
  <2>1. PICK T \in B : \A t \in B : t \subseteq T => t = T
    <3>1. B \in SUBSET SUBSET S
      OBVIOUS
    <3> HIDE DEF B
    <3> QED BY <1>1, <3>1, SmallestPart
  <2>2. \A t \in SUBSET T : t # T => SumsParts(PartSums(f, t), f, t)
    <3>1. \A t \in SUBSET T : t # T => Good(t)
      BY <2>1
    <3> QED BY <3>1, Zenon DEF PartSums
  <2> DEFINE h(t) == PartSums(f, t)[t]
             part(t) == IF t = {} THEN 0 ELSE f[Pick(t)] + h(t \ {Pick(t)})
             G == [t \in SUBSET T |-> part(t)]
  <2>3. ASSUME NEW t \in SUBSET T, t # T PROVE h(t) = part(t)
    <3>1. h(t) = IF t = {} THEN 0 ELSE f[Pick(t)] + PartSums(f, t)[t \ {Pick(t)}]
      <4>1. SumsParts(PartSums(f, t), f, t) /\ t \in SUBSET t
        BY <2>2, <2>3
      <4>2. SumsPart(PartSums(f, t), f, t)
        BY <4>1, PartSumAt
      <4> QED BY <4>2 DEF SumsPart
    <3>2. CASE t = {}
      BY <3>1, <3>2
    <3>3. CASE t # {}
      <4> DEFINE u == t \ {Pick(t)}
      <4>1. u \in SUBSET T /\ u # T /\ u \subseteq t /\ u \subseteq u /\ u \in SUBSET u
        BY <3>3, PickIn
      <4>2. IsFiniteSet(u)
        BY FS_Subset, u \in SUBSET S, Zenon
      <4>3. SumsParts(PartSums(f, u), f, u) /\ SumsParts(PartSums(f, t), f, t)
        BY <2>2, <2>3, <4>1, Zenon
      <4>4. PartSums(f, t)[u] = PartSums(f, u)[u]
        <5>1. IsFiniteSet(t) /\ u \in SUBSET t
          BY <4>1, FS_Subset
        <5> DEFINE g == PartSums(f, t)
                   k == PartSums(f, u)
        <5>2. SumsParts(g, f, t) /\ SumsParts(k, f, u)
          BY <4>3
        <5>3. u \in SUBSET u
          OBVIOUS
        <5> HIDE DEF u, g, k
        <5>4. g[u] = k[u]
          BY <5>1, <5>2, <5>3, PartSumsUnique, SMTT(30)
        <5> QED BY <5>4 DEF g, k
      <4> QED BY <3>1, <3>3, <4>4
    <3> QED BY <3>2, <3>3
  <2>4. ASSUME NEW t \in SUBSET T
        PROVE  part(t) = IF t = {} THEN 0 ELSE f[Pick(t)] + G[t \ {Pick(t)}]
    <3>1. CASE t = {}
      BY <3>1
    <3>2. CASE t # {}
      <4> DEFINE u == t \ {Pick(t)}
      <4>1. u \in SUBSET T /\ u # T
        BY <3>2, PickIn
      <4>2. G[u] = part(u)
        BY <4>1
      <4>3. part(u) = h(u)
        <5> HIDE DEF part, h, u, G
        <5> QED BY <2>3, <4>1
      <4> QED BY <3>2, <4>2, <4>3
    <3> QED BY <3>1, <3>2
  <2>5. SumsParts(G, f, T)
    <3> DEFINE body(t) == IF t = {} THEN 0 ELSE f[Pick(t)] + G[t \ {Pick(t)}]
    <3> HIDE DEF part
    <3>1. \A t \in SUBSET T : part(t) = body(t)
      BY <2>4, Zenon
    <3>2. G = [t \in SUBSET T |-> body(t)]
      <4> HIDE DEF body
      <4> QED BY <3>1
    <3> HIDE DEF G
    <3> QED BY <3>2, Zenon DEF SumsParts
  <2>6. T \in SUBSET S /\ ~Good(T)
    BY <2>1
  <2> HIDE DEF G
  <2> QED BY <2>5, <2>6, Zenon
<1>2. Good(S)
  BY <1>1, S \in SUBSET S
<1> QED BY <1>2, Zenon DEF PartSums

\* The sums of all parts of a finite set are the values of one function.
LEMMA SumIsPartSum ==
    ASSUME NEW f, NEW S, IsFiniteSet(S)
    PROVE  \A T \in SUBSET S : SumFunctionOnSet(f, T) = PartSums(f, S)[T]
<1> SUFFICES ASSUME NEW T \in SUBSET S
             PROVE  SumFunctionOnSet(f, T) = PartSums(f, S)[T]
  OBVIOUS
<1>1. IsFiniteSet(T) /\ T \subseteq T /\ T \in SUBSET T
  BY FS_Subset
<1>2. SumsParts(PartSums(f, S), f, S) /\ SumsParts(PartSums(f, T), f, T)
  BY <1>1, PartSumsExist
<1>3. PartSums(f, S)[T] = PartSums(f, T)[T]
  <2> DEFINE g == PartSums(f, S)
             k == PartSums(f, T)
  <2>1. SumsParts(g, f, S) /\ SumsParts(k, f, T)
    BY <1>2
  <2> HIDE DEF g, k
  <2>2. g[T] = k[T]
    BY <1>1, <2>1, PartSumsUnique
  <2> QED BY <2>2 DEF g, k
<1>4. SumFunctionOnSet(f, T) = PartSums(f, T)[T]
  BY SumUnfolds
<1> QED BY <1>3, <1>4

\* The empty sum is 0, and a sum is one of its terms plus the others.
LEMMA SumPick ==
    ASSUME NEW f, NEW S, IsFiniteSet(S)
    PROVE  /\ SumFunctionOnSet(f, {}) = 0
           /\ S # {} => SumFunctionOnSet(f, S) =
                           f[Pick(S)] + SumFunctionOnSet(f, S \ {Pick(S)})
<1> DEFINE g == PartSums(f, S)
<1>1. SumsParts(g, f, S)
  BY PartSumsExist
<1>2. {} \in SUBSET S /\ S \in SUBSET S /\ S \ {Pick(S)} \in SUBSET S
  OBVIOUS
<1>3. \A T \in SUBSET S : SumFunctionOnSet(f, T) = g[T]
  BY SumIsPartSum
<1> HIDE DEF g
<1>4. SumsPart(g, f, {}) /\ SumsPart(g, f, S)
  BY <1>1, <1>2, PartSumAt
<1> QED BY <1>2, <1>3, <1>4 DEF SumsPart

\* Functions that agree on a set have the same sum over it.
LEMMA SumAgree ==
    ASSUME NEW f, NEW h, NEW S, IsFiniteSet(S), \A x \in S : f[x] = h[x]
    PROVE  SumFunctionOnSet(f, S) = SumFunctionOnSet(h, S)
<1> DEFINE B == {T \in SUBSET S : SumFunctionOnSet(f, T) # SumFunctionOnSet(h, T)}
<1>1. ASSUME B # {} PROVE FALSE
  <2>1. B \in SUBSET SUBSET S
    OBVIOUS
  <2>2. PICK T \in B : \A t \in B : t \subseteq T => t = T
    <3> HIDE DEF B
    <3> QED BY <1>1, <2>1, SmallestPart
  <2>3. T \in SUBSET S /\ IsFiniteSet(T)
    BY FS_Subset
  <2>4. SumFunctionOnSet(f, T) # SumFunctionOnSet(h, T)
    OBVIOUS
  <2>5. T # {}
    BY <2>3, <2>4, SumPick
  <2> DEFINE p == Pick(T)
  <2>6. /\ p \in T
        /\ SumFunctionOnSet(f, T) = f[p] + SumFunctionOnSet(f, T \ {p})
        /\ SumFunctionOnSet(h, T) = h[p] + SumFunctionOnSet(h, T \ {p})
    BY <2>3, <2>5, SumPick, PickIn, Zenon
  <2>7. SumFunctionOnSet(f, T \ {p}) = SumFunctionOnSet(h, T \ {p})
    <3> HIDE DEF p
    <3> QED BY <2>2, <2>3, <2>6
  <2>8. f[p] = h[p]
    BY <2>3, <2>6
  <2> QED BY <2>4, <2>6, <2>7, <2>8
<1> QED BY <1>1

\* A sum of integers is an integer, and a natural number when every term is one.
LEMMA SumInt ==
    ASSUME NEW f, NEW S, IsFiniteSet(S), \A x \in S : f[x] \in Int
    PROVE  /\ SumFunctionOnSet(f, S) \in Int
           /\ (\A x \in S : f[x] >= 0) => SumFunctionOnSet(f, S) >= 0
<1> DEFINE Sum(T) == SumFunctionOnSet(f, T)
           Good(T) == Sum(T) \in Int /\ ((\A x \in T : f[x] >= 0) => Sum(T) >= 0)
           B == {T \in SUBSET S : ~Good(T)}
<1>1. ASSUME B # {} PROVE FALSE
  <2>1. PICK T \in B : \A t \in B : t \subseteq T => t = T
    <3>1. B \in SUBSET SUBSET S
      OBVIOUS
    <3> HIDE DEF B
    <3> QED BY <1>1, <3>1, SmallestPart
  <2>2. T \in SUBSET S /\ ~Good(T) /\ IsFiniteSet(T)
    <3>1. T \in SUBSET S /\ ~Good(T)
      BY <2>1
    <3> QED BY <3>1, FS_Subset
  <2> DEFINE p == Pick(T)
             U == T \ {p}
  <2>3. T # {}
    <3>1. Sum({}) = 0
      BY <2>2, SumPick
    <3> HIDE DEF Sum
    <3> QED BY <2>2, <3>1
  <2>4. p \in T /\ Sum(T) = f[p] + Sum(U)
    BY <2>2, <2>3, SumPick, PickIn, Zenon
  <2>5. Good(U)
    <3>1. U \subseteq T /\ U # T /\ U \in SUBSET S
      BY <2>2, <2>4
    <3> HIDE DEF Good, U
    <3> QED BY <2>1, <3>1
  <2> HIDE DEF Sum, p
  <2> QED BY <2>2, <2>4, <2>5
<1>2. Good(S)
  BY <1>1, S \in SUBSET S
<1> QED BY <1>2

\* A sum is any one of its terms plus the sum of the others.
LEMMA SumTake ==
    ASSUME NEW f, NEW S, IsFiniteSet(S), \A y \in S : f[y] \in Int, NEW x \in S
    PROVE  SumFunctionOnSet(f, S) = f[x] + SumFunctionOnSet(f, S \ {x})
<1> DEFINE Sum(T) == SumFunctionOnSet(f, T)
           Good(T) == \A y \in T : Sum(T) = f[y] + Sum(T \ {y})
           B == {T \in SUBSET S : ~Good(T)}
<1>1. ASSUME B # {} PROVE FALSE
  <2>1. PICK T \in B : \A t \in B : t \subseteq T => t = T
    <3>1. B \in SUBSET SUBSET S
      OBVIOUS
    <3> HIDE DEF B
    <3> QED BY <1>1, <3>1, SmallestPart
  <2>2. PICK y \in T : Sum(T) # f[y] + Sum(T \ {y})
    BY <2>1
  <2>3. T \in SUBSET S
    BY <2>1
  <2>4. \A u \in SUBSET T : IsFiniteSet(u) /\ (\A z \in u : f[z] \in Int) /\ Sum(u) \in Int
    <3>1. \A u \in SUBSET T : IsFiniteSet(u) /\ (\A z \in u : f[z] \in Int)
      BY <2>3, FS_Subset
    <3> QED BY <3>1, SumInt
  <2> DEFINE p == Pick(T)
  <2>5. p \in T /\ Sum(T) = f[p] + Sum(T \ {p})
    <3>1. T # {} /\ IsFiniteSet(T)
      BY <2>4, T \in SUBSET T
    <3> QED BY <3>1, SumPick, PickIn, Zenon
  <2>6. p # y
    BY <2>2, <2>5
  <2>7. \A u \in SUBSET T : u # T => Good(u)
    <3> HIDE DEF Good
    <3> QED BY <2>1, <2>3
  <2>8. Sum(T \ {p}) = f[y] + Sum((T \ {p}) \ {y})
    <3>1. T \ {p} \in SUBSET T /\ T \ {p} # T /\ y \in T \ {p}
      BY <2>5, <2>6
    <3> HIDE DEF p, Sum
    <3> QED BY <2>7, <3>1
  <2>9. Sum(T \ {y}) = f[p] + Sum((T \ {y}) \ {p})
    <3>1. T \ {y} \in SUBSET T /\ T \ {y} # T /\ p \in T \ {y}
      BY <2>5, <2>6
    <3> HIDE DEF p, Sum
    <3> QED BY <2>7, <3>1
  <2>10. (T \ {p}) \ {y} = (T \ {y}) \ {p}
    OBVIOUS
  <2>11. f[p] \in Int /\ f[y] \in Int /\ Sum((T \ {y}) \ {p}) \in Int
    <3>1. (T \ {y}) \ {p} \in SUBSET T /\ T \in SUBSET T
      OBVIOUS
    <3> HIDE DEF p, Sum
    <3> QED BY <2>4, <2>5, <3>1
  <2>12. Sum(T \ {p}) = f[y] + Sum((T \ {y}) \ {p})
    BY <2>8, <2>10
  <2> DEFINE rest == Sum((T \ {y}) \ {p})
  <2>13. /\ Sum(T) = f[p] + (f[y] + rest) /\ Sum(T \ {y}) = f[p] + rest
         /\ rest \in Int /\ f[p] \in Int /\ f[y] \in Int
    BY <2>5, <2>9, <2>11, <2>12
  <2>14. Sum(T) # f[y] + Sum(T \ {y})
    BY <2>2
  <2> HIDE DEF Sum, p, rest
  <2> QED BY <2>13, <2>14
<1>2. Good(S)
  BY <1>1, S \in SUBSET S
<1> QED BY <1>2

\* When one value changes, the sum changes by as much.
LEMMA SumChange ==
    ASSUME NEW D, IsFiniteSet(D), NEW f \in [D -> Int], NEW g \in [D -> Int], NEW a \in D,
           \A x \in D \ {a} : g[x] = f[x]
    PROVE  /\ SumFunction(f) \in Int
           /\ SumFunction(g) = SumFunction(f) - f[a] + g[a]
<1>1. DOMAIN f = D /\ DOMAIN g = D
  OBVIOUS
<1> DEFINE E == D \ {a}
<1>2. IsFiniteSet(E) /\ \A x \in E : f[x] = g[x] /\ f[x] \in Int
  BY FS_RemoveElement
<1>3. SumFunctionOnSet(g, E) = SumFunctionOnSet(f, E)
  <2> HIDE DEF E
  <2> QED BY <1>2, SumAgree
<1>4. SumFunctionOnSet(f, E) \in Int
  <2> HIDE DEF E
  <2> QED BY <1>2, SumInt
<1>5. \A x \in D : f[x] \in Int /\ g[x] \in Int
  OBVIOUS
<1>6. SumFunctionOnSet(f, D) = f[a] + SumFunctionOnSet(f, E)
  BY <1>5, SumTake
<1>7. SumFunctionOnSet(g, D) = g[a] + SumFunctionOnSet(g, E)
  BY <1>5, SumTake
<1>8. SumFunction(f) = SumFunctionOnSet(f, D) /\ SumFunction(g) = SumFunctionOnSet(g, D)
  BY <1>1 DEF SumFunction
<1> HIDE DEF E
<1> QED BY <1>3, <1>4, <1>5, <1>6, <1>7, <1>8

\* A sum of natural numbers is one, and covers each of its terms.
LEMMA SumCovers ==
    ASSUME NEW D, IsFiniteSet(D), NEW f \in [D -> Nat]
    PROVE  /\ SumFunction(f) \in Nat
           /\ \A a \in D : f[a] <= SumFunction(f)
<1>1. \A x \in D : f[x] \in Int /\ f[x] >= 0
  OBVIOUS
<1>2. SumFunction(f) = SumFunctionOnSet(f, D)
  BY DEF SumFunction
<1>3. SumFunction(f) \in Nat
  BY <1>1, <1>2, SumInt
<1>4. ASSUME NEW a \in D PROVE f[a] <= SumFunction(f)
  <2> DEFINE others == SumFunctionOnSet(f, D \ {a})
  <2>1. SumFunction(f) = f[a] + others
    BY <1>1, <1>2, SumTake
  <2>2. IsFiniteSet(D \ {a})
    BY FS_RemoveElement
  <2>3. others \in Nat
    BY <1>1, <2>2, SumInt
  <2> HIDE DEF others
  <2> QED
    BY <1>1, <2>1, <2>3
<1> QED
  BY <1>3, <1>4

\* It covers any two of its terms together.
LEMMA SumCoversTwo ==
    ASSUME NEW D, IsFiniteSet(D), NEW f \in [D -> Nat], NEW a \in D, NEW b \in D, a # b
    PROVE  f[a] + f[b] <= SumFunction(f)
<1>1. \A x \in D : f[x] \in Int /\ f[x] >= 0
  OBVIOUS
<1>2. SumFunction(f) = SumFunctionOnSet(f, D)
  BY DEF SumFunction
<1> DEFINE E == D \ {a}
           F == E \ {b}
<1>3. IsFiniteSet(E) /\ IsFiniteSet(F) /\ b \in E /\ E \subseteq D /\ F \subseteq D
  BY FS_RemoveElement
<1>4. SumFunctionOnSet(f, D) = f[a] + SumFunctionOnSet(f, E)
  BY <1>1, SumTake
<1> HIDE DEF E
<1>5. \A x \in E : f[x] \in Int /\ f[x] >= 0
  BY <1>1, <1>3
<1>6. SumFunctionOnSet(f, E) = f[b] + SumFunctionOnSet(f, F)
  BY <1>3, <1>5, SumTake
<1> HIDE DEF F
<1>7. \A x \in F : f[x] \in Int /\ f[x] >= 0
  BY <1>1, <1>3
<1>8. SumFunctionOnSet(f, F) \in Int /\ SumFunctionOnSet(f, F) >= 0
  BY <1>3, <1>7, SumInt
<1> QED
  BY <1>1, <1>2, <1>4, <1>6, <1>8

\* The balances of a fresh ledger sum to zero.
LEMMA SumOfZeros ==
    ASSUME NEW D, IsFiniteSet(D)
    PROVE  SumFunction([a \in D |-> 0]) = 0
<1> DEFINE f == [a \in D |-> 0]
           Sum(T) == SumFunctionOnSet(f, T)
           B == {T \in SUBSET D : Sum(T) # 0}
<1>1. ASSUME B # {} PROVE FALSE
  <2>1. PICK T \in B : \A t \in B : t \subseteq T => t = T
    <3>1. B \in SUBSET SUBSET D
      OBVIOUS
    <3> HIDE DEF B
    <3> QED BY <1>1, <3>1, SmallestPart
  <2>2. T \in SUBSET D /\ Sum(T) # 0
    BY <2>1
  <2>3. IsFiniteSet(T)
    BY <2>2, FS_Subset
  <2> DEFINE p == Pick(T)
  <2> HIDE DEF f
  <2>4. T # {}
    BY <2>2, <2>3, SumPick
  <2>5. p \in T /\ Sum(T) = f[p] + Sum(T \ {p})
    BY <2>3, <2>4, SumPick, PickIn, Zenon
  <2>6. Sum(T \ {p}) = 0
    <3>1. T \ {p} \in SUBSET D /\ T \ {p} \subseteq T /\ T \ {p} # T
      BY <2>2, <2>5
    <3> HIDE DEF Sum, p
    <3> QED BY <2>1, <3>1
  <2>7. f[p] = 0
    BY <2>2, <2>5 DEF f
  <2> QED BY <2>2, <2>5, <2>6, <2>7
<1>2. Sum(D) = 0
  BY <1>1, D \in SUBSET D
<1>3. DOMAIN f = D
  OBVIOUS
<1> QED BY <1>2, <1>3 DEF SumFunction

\* A transfer, which a token's own account may also make to itself, moves the
\* amount between two terms of the sum of the balances and leaves the sum alone.
LEMMA SumMoved ==
    ASSUME NEW A, IsFiniteSet(A), NEW bal \in [A -> Int], NEW from \in A, NEW to \in A,
           NEW amount \in Int
    PROVE  SumFunction(Moved(bal, from, to, amount)) = SumFunction(bal)
<1> DEFINE debited == [bal EXCEPT ![from] = bal[from] - amount]
           moved == [debited EXCEPT ![to] = debited[to] + amount]
<1>1. Moved(bal, from, to, amount) = moved
  BY DEF Moved
<1>2. /\ debited \in [A -> Int] /\ debited[from] = bal[from] - amount
      /\ \A x \in A \ {from} : debited[x] = bal[x]
  OBVIOUS
<1> HIDE DEF debited
<1>3. /\ moved \in [A -> Int] /\ moved[to] = debited[to] + amount
      /\ \A x \in A \ {to} : moved[x] = debited[x]
  BY <1>2
<1> HIDE DEF moved
<1>4. SumFunction(bal) \in Int /\ SumFunction(debited) = SumFunction(bal) - amount
  <2>1. /\ SumFunction(bal) \in Int
        /\ SumFunction(debited) = SumFunction(bal) - bal[from] + debited[from]
    BY <1>2, SumChange
  <2> QED BY <1>2, <2>1
<1>5. SumFunction(moved) = SumFunction(debited) + amount
  <2>1. /\ SumFunction(debited) \in Int
        /\ SumFunction(moved) = SumFunction(debited) - debited[to] + moved[to]
    BY <1>2, <1>3, SumChange
  <2> QED BY <1>2, <1>3, <2>1
<1> QED BY <1>1, <1>4, <1>5

-----------------------------------------------------------------------------
\* Induction on the parts of a finite set, for the parts that are in G.
LEMMA PartInduction ==
    ASSUME NEW S, IsFiniteSet(S), NEW G, {} \in G,
           \A T \in SUBSET S : \A x \in S : T \in G /\ x \notin T => T \cup {x} \in G
    PROVE  S \in G
<1> DEFINE B == {T \in SUBSET S : T \notin G}
<1>1. ASSUME B # {} PROVE FALSE
  <2>1. PICK T \in B : \A t \in B : t \subseteq T => t = T
    <3>1. B \in SUBSET SUBSET S
      OBVIOUS
    <3> HIDE DEF B
    <3> QED BY <1>1, <3>1, SmallestPart
  <2>2. T \in SUBSET S /\ T \notin G /\ T # {}
    BY <2>1
  <2>3. PICK x \in T : TRUE
    BY <2>2
  <2>4. T \ {x} \in SUBSET S /\ T \ {x} # T /\ T = (T \ {x}) \cup {x}
    BY <2>2, <2>3
  <2>5. T \ {x} \in G
    BY <2>1, <2>4
  <2> QED BY <2>2, <2>3, <2>4, <2>5
<1> QED BY <1>1, S \in SUBSET S

\* One more term.
LEMMA SumPut ==
    ASSUME NEW f, NEW T, IsFiniteSet(T), NEW x, x \notin T, \A y \in T \cup {x} : f[y] \in Int
    PROVE  SumFunctionOnSet(f, T \cup {x}) = SumFunctionOnSet(f, T) + f[x]
<1> DEFINE U == T \cup {x}
<1>1. IsFiniteSet(U) /\ x \in U /\ U \ {x} = T /\ \A y \in U : f[y] \in Int
  BY FS_AddElement
<1> HIDE DEF U
<1>2. SumFunctionOnSet(f, U) = f[x] + SumFunctionOnSet(f, T)
  BY <1>1, SumTake
<1>3. SumFunctionOnSet(f, T) \in Int /\ f[x] \in Int
  BY <1>1, SumInt
<1> QED BY <1>2, <1>3 DEF U

\* A sum over two disjoint sets.
LEMMA SumSplit ==
    ASSUME NEW f, NEW S, NEW T, IsFiniteSet(S), IsFiniteSet(T), S \cap T = {},
           \A x \in S \cup T : f[x] \in Int
    PROVE  SumFunctionOnSet(f, S \cup T) = SumFunctionOnSet(f, S) + SumFunctionOnSet(f, T)
<1> DEFINE Sum(U) == SumFunctionOnSet(f, U)
           G == {U \in SUBSET T : Sum(S \cup U) = Sum(S) + Sum(U)}
<1>1. Sum(S) \in Int /\ Sum({}) = 0
  BY SumInt, SumPick
<1>2. {} \in G
  BY <1>1, S \cup {} = S
<1>3. ASSUME NEW U \in SUBSET T, NEW x \in T, U \in G, x \notin U PROVE U \cup {x} \in G
  <2>1. IsFiniteSet(U) /\ IsFiniteSet(S \cup U) /\ x \notin S \cup U
    <3>1. IsFiniteSet(U)
      BY FS_Subset
    <3> QED BY <1>3, <3>1, FS_Union
  <2>2. \A y \in (S \cup U) \cup {x} : f[y] \in Int
    OBVIOUS
  <2>3. Sum((S \cup U) \cup {x}) = Sum(S \cup U) + f[x]
    BY <2>1, <2>2, SumPut
  <2>4. Sum(U \cup {x}) = Sum(U) + f[x]
    BY <1>3, <2>1, <2>2, SumPut
  <2>5. Sum(U) \in Int /\ f[x] \in Int
    BY <2>1, <2>2, SumInt
  <2>6. Sum(S \cup U) = Sum(S) + Sum(U)
    BY <1>3
  <2>7. (S \cup U) \cup {x} = S \cup (U \cup {x}) /\ U \cup {x} \in SUBSET T
    OBVIOUS
  <2>8. Sum(S \cup (U \cup {x})) = Sum(S) + (Sum(U) + f[x])
    <3>1. Sum(S \cup (U \cup {x})) = Sum((S \cup U) \cup {x})
      BY <2>7, Zenon
    <3>2. Sum(S) \in Int /\ Sum(U) \in Int /\ f[x] \in Int
      BY <1>1, <2>5
    <3> HIDE DEF Sum
    <3>3. Sum(S \cup (U \cup {x})) = (Sum(S) + Sum(U)) + f[x]
      BY <2>3, <2>6, <3>1, Zenon
    <3> QED BY <3>2, <3>3
  <2>9. Sum(S \cup (U \cup {x})) = Sum(S) + Sum(U \cup {x})
    <3> HIDE DEF Sum
    <3> QED BY <2>4, <2>8
  <2> QED BY <2>7, <2>9
<1>4. T \in G
  <2> HIDE DEF G
  <2> QED BY <1>2, <1>3, PartInduction
<1> QED BY <1>4

\* A sum over the images of a one-to-one function.
LEMMA SumRenamed ==
    ASSUME NEW f, NEW S, IsFiniteSet(S), NEW h, \A x, y \in S : h[x] = h[y] => x = y,
           \A x \in S : f[h[x]] \in Int
    PROVE  SumFunctionOnSet([x \in S |-> f[h[x]]], S) = SumFunctionOnSet(f, {h[x] : x \in S})
<1> DEFINE k == [x \in S |-> f[h[x]]]
           Img(U) == {h[x] : x \in U}
           G == {U \in SUBSET S : /\ IsFiniteSet(Img(U))
                                  /\ SumFunctionOnSet(k, U) = SumFunctionOnSet(f, Img(U))}
<1>1. {} \in G
  <2>1. Img({}) = {}
    OBVIOUS
  <2>2. IsFiniteSet({})
    BY FS_EmptySet
  <2>3. SumFunctionOnSet(k, {}) = 0 /\ SumFunctionOnSet(f, {}) = 0
    BY <2>2, SumPick
  <2> HIDE DEF k
  <2> QED BY <2>1, <2>2, <2>3
<1>2. ASSUME NEW U \in SUBSET S, NEW x \in S, U \in G, x \notin U PROVE U \cup {x} \in G
  <2>1. IsFiniteSet(U) /\ IsFiniteSet(Img(U)) /\ SumFunctionOnSet(k, U) = SumFunctionOnSet(f, Img(U))
    BY <1>2, FS_Subset
  <2>2. Img(U \cup {x}) = Img(U) \cup {h[x]} /\ h[x] \notin Img(U)
    BY <1>2
  <2>3. k[x] = f[h[x]] /\ (\A y \in U \cup {x} : k[y] \in Int)
        /\ \A y \in Img(U) \cup {h[x]} : f[y] \in Int
    OBVIOUS
  <2> HIDE DEF k
  <2>4. SumFunctionOnSet(k, U \cup {x}) = SumFunctionOnSet(k, U) + k[x]
    BY <1>2, <2>1, <2>3, SumPut
  <2> DEFINE I == Img(U)
             z == h[x]
  <2>5. IsFiniteSet(I) /\ z \notin I /\ \A y \in I \cup {z} : f[y] \in Int
    BY <2>1, <2>2, <2>3
  <2>6. Img(U \cup {x}) = I \cup {z} /\ k[x] = f[z] /\ SumFunctionOnSet(k, U) = SumFunctionOnSet(f, I)
    BY <2>1, <2>2, <2>3
  <2> HIDE DEF I, z, Img
  <2>7. SumFunctionOnSet(f, I \cup {z}) = SumFunctionOnSet(f, I) + f[z] /\ IsFiniteSet(I \cup {z})
    BY <2>5, SumPut, FS_AddElement
  <2> QED BY <2>4, <2>6, <2>7
<1>3. S \in G
  <2> HIDE DEF G
  <2> QED BY <1>1, <1>2, PartInduction
<1> QED BY <1>3

\* What holds between the terms of two sums, up to a factor, holds between the sums.
LEMMA SumsCompare ==
    ASSUME NEW f, NEW g, NEW S, IsFiniteSet(S), NEW d \in Int, NEW a \in Int,
           \A x \in S : f[x] \in Int /\ g[x] \in Int /\ d * f[x] <= a * g[x]
    PROVE  d * SumFunctionOnSet(f, S) <= a * SumFunctionOnSet(g, S)
<1> DEFINE G == {U \in SUBSET S : d * SumFunctionOnSet(f, U) <= a * SumFunctionOnSet(g, U)}
<1>1. {} \in G
  <2>1. SumFunctionOnSet(f, {}) = 0 /\ SumFunctionOnSet(g, {}) = 0
    BY SumPick
  <2> QED BY <2>1
<1>2. ASSUME NEW U \in SUBSET S, NEW x \in S, U \in G, x \notin U PROVE U \cup {x} \in G
  <2>1. IsFiniteSet(U)
    BY FS_Subset
  <2>2. \A y \in U \cup {x} : f[y] \in Int /\ g[y] \in Int
    OBVIOUS
  <2>3. /\ SumFunctionOnSet(f, U \cup {x}) = SumFunctionOnSet(f, U) + f[x]
        /\ SumFunctionOnSet(g, U \cup {x}) = SumFunctionOnSet(g, U) + g[x]
    BY <1>2, <2>1, <2>2, SumPut
  <2>4. SumFunctionOnSet(f, U) \in Int /\ SumFunctionOnSet(g, U) \in Int
    BY <2>1, <2>2, SumInt
  <2>5. \A p, q, r, s \in Int : d * p <= a * q /\ d * r <= a * s => d * (p + r) <= a * (q + s)
    OBVIOUS
  <2> QED BY <1>2, <2>2, <2>3, <2>4, <2>5
<1>3. S \in G
  <2> HIDE DEF G
  <2> QED BY <1>1, <1>2, PartInduction
<1> QED BY <1>3

\* A sum of terms that are each at most those of another is at most that.
LEMMA SumsOrdered ==
    ASSUME NEW f, NEW g, NEW S, IsFiniteSet(S),
           \A x \in S : f[x] \in Int /\ g[x] \in Int /\ f[x] <= g[x]
    PROVE  /\ SumFunctionOnSet(f, S) \in Int /\ SumFunctionOnSet(g, S) \in Int
           /\ SumFunctionOnSet(f, S) <= SumFunctionOnSet(g, S)
<1>1. SumFunctionOnSet(f, S) \in Int /\ SumFunctionOnSet(g, S) \in Int
  BY SumInt
<1>2. \A x \in S : f[x] \in Int /\ g[x] \in Int /\ 1 * f[x] <= 1 * g[x]
  OBVIOUS
<1>3. 1 * SumFunctionOnSet(f, S) <= 1 * SumFunctionOnSet(g, S)
  BY <1>2, SumsCompare
<1> QED BY <1>1, <1>3

\* Induction on the natural numbers that are in G.
LEMMA CountingInduction ==
    ASSUME NEW G, 0 \in G, \A n \in Nat : n \in G => n + 1 \in G
    PROVE  Nat \subseteq G
<1> DEFINE B == {n \in Nat : n \notin G}
<1>1. ASSUME B # {} PROVE FALSE
  <2>1. PICK n \in B : \A m \in B : ~(<<m, n>> \in OpToRel(<, Nat))
    <3>1. B \subseteq Nat
      OBVIOUS
    <3> HIDE DEF B
    <3> QED BY <1>1, <3>1, NatLessThanWellFounded, WFMin
  <2>2. n \in Nat /\ n # 0 /\ n - 1 \in Nat /\ n - 1 < n
    OBVIOUS
  <2>3. n - 1 \in G
    BY <2>1, <2>2 DEF OpToRel
  <2> QED BY <2>2, <2>3
<1> QED BY <1>1

\* k is first up to m and then second up to n.
Joins(k, m, first, n, second) ==
    /\ \A i \in 1..m : k[i] = first[i] /\ first[i] \in Int
    /\ \A i \in 1..n : k[i + m] = second[i] /\ second[i] \in Int

\* A sum over 1..m+n is one over 1..m and one over the n that follow, counted anew.
LEMMA SumJoined ==
    ASSUME NEW m \in Nat, NEW n \in Nat, NEW k, NEW first, NEW second,
           Joins(k, m, first, n, second)
    PROVE  SumFunctionOnSet(k, 1..m+n) = SumFunctionOnSet(first, 1..m) + SumFunctionOnSet(second, 1..n)
<1> DEFINE D == 1..m
           E == 1..n
           Late == m+1..m+n
           h == [i \in E |-> i + m]
           q == [i \in E |-> k[h[i]]]
<1>1. IsFiniteSet(D) /\ IsFiniteSet(E) /\ IsFiniteSet(Late)
  BY FS_Interval
<1>2. 1..m+n = D \cup Late /\ D \cap Late = {}
  OBVIOUS
<1>3. \A j \in Late : j - m \in E /\ j = (j - m) + m
  OBVIOUS
<1>4. \A i \in E : h[i] = i + m /\ h[i] \in Late
  OBVIOUS
<1> USE DEF Joins
<1>5. \A x, y \in E : h[x] = h[y] => x = y
  OBVIOUS
<1>6. Late = {h[i] : i \in E}
  <2> HIDE DEF Late, h, E
  <2>1. \A j \in Late : \E i \in E : h[i] = j
    BY <1>3, <1>4
  <2> QED BY <1>4, <2>1
<1>7. \A i \in E : k[h[i]] = second[i] /\ second[i] \in Int
  BY <1>4
<1>8. \A j \in Late : k[j] \in Int
  BY <1>3
<1>9. \A i \in D : k[i] = first[i] /\ k[i] \in Int
  OBVIOUS
<1>10. \A i \in E : q[i] = second[i]
  BY <1>7
<1> HIDE DEF D, E, Late, h
<1>11. SumFunctionOnSet(k, D \cup Late) = SumFunctionOnSet(k, D) + SumFunctionOnSet(k, Late)
  BY <1>1, <1>2, <1>8, <1>9, SumSplit
<1>12. SumFunctionOnSet(k, D) = SumFunctionOnSet(first, D)
  BY <1>1, <1>9, SumAgree
<1>13. SumFunctionOnSet(q, E) = SumFunctionOnSet(k, {h[i] : i \in E})
  BY <1>1, <1>5, <1>7, SumRenamed
<1> HIDE DEF q
<1>14. SumFunctionOnSet(q, E) = SumFunctionOnSet(second, E)
  BY <1>1, <1>10, SumAgree
<1> QED BY <1>2, <1>6, <1>11, <1>12, <1>13, <1>14 DEF D, E

-----------------------------------------------------------------------------
(* Functions defined by recursion on the natural numbers: the equation has *)
(* a solution, because its first values can be listed to any length.       *)

\* g starts at first, and each of its values follows from the one before by next.
Iterates(g, first, next) == g = [n \in Nat |-> IF n = 0 THEN first ELSE next[g[n - 1]]]

\* h lists the first n values and the start.
Listed(h, n, S, first, next) ==
    /\ h \in [0..n -> S]
    /\ h[0] = first
    /\ \A i \in 1..n : h[i] = next[h[i - 1]]

\* Lists of any length exist.
LEMMA ListsExist ==
    ASSUME NEW S, NEW first \in S, NEW next \in [S -> S]
    PROVE  \A n \in Nat : \E h : Listed(h, n, S, first, next)
<1> DEFINE G == {n \in Nat : \E h : Listed(h, n, S, first, next)}
<1>1. 0 \in G
  <2>1. Listed([i \in 0..0 |-> first], 0, S, first, next)
    BY DEF Listed
  <2> QED BY <2>1
<1>2. ASSUME NEW n \in Nat, n \in G PROVE n + 1 \in G
  <2>1. PICK h : Listed(h, n, S, first, next)
    BY <1>2
  <2> DEFINE longer == [i \in 0..(n + 1) |-> IF i = n + 1 THEN next[h[n]] ELSE h[i]]
  <2>2. h \in [0..n -> S] /\ h[n] \in S /\ next[h[n]] \in S
    BY <2>1 DEF Listed
  <2>3. longer \in [0..(n + 1) -> S]
    BY <2>2
  <2>4. longer[0] = first
    BY <2>1 DEF Listed
  <2>5. ASSUME NEW i \in 1..(n + 1) PROVE longer[i] = next[longer[i - 1]]
    <3>1. i - 1 \in 0..n /\ longer[i - 1] = h[i - 1]
      OBVIOUS
    <3>2. CASE i = n + 1
      BY <3>1, <3>2
    <3>3. CASE i # n + 1
      <4>1. i \in 1..n /\ longer[i] = h[i]
        BY <3>3
      <4> QED BY <2>1, <3>1, <4>1 DEF Listed
    <3> QED BY <3>2, <3>3
  <2> HIDE DEF longer
  <2>6. Listed(longer, n + 1, S, first, next)
    BY <2>3, <2>4, <2>5 DEF Listed
  <2> QED BY <2>6
<1>3. Nat \subseteq G
  <2> HIDE DEF G
  <2> QED BY <1>1, <1>2, CountingInduction
<1> QED BY <1>3

\* Two lists agree as far as both go.
LEMMA ListsAgree ==
    ASSUME NEW S, NEW first \in S, NEW next \in [S -> S],
           NEW n \in Nat, NEW m \in Nat, NEW h, NEW k,
           Listed(h, n, S, first, next), Listed(k, m, S, first, next)
    PROVE  \A i \in Nat : i <= n /\ i <= m => h[i] = k[i]
<1> DEFINE G == {i \in Nat : i <= n /\ i <= m => h[i] = k[i]}
<1>1. 0 \in G
  BY DEF Listed
<1>2. ASSUME NEW i \in Nat, i \in G PROVE i + 1 \in G
  <2> SUFFICES ASSUME i + 1 <= n, i + 1 <= m PROVE h[i + 1] = k[i + 1]
    OBVIOUS
  <2>1. i + 1 \in 1..n /\ i + 1 \in 1..m /\ (i + 1) - 1 = i /\ h[i] = k[i]
    BY <1>2
  <2> QED BY <2>1 DEF Listed
<1>3. Nat \subseteq G
  <2> HIDE DEF G
  <2> QED BY <1>1, <1>2, CountingInduction
<1> QED BY <1>3

\* So the recursion has a solution, and all its values are of the set.
LEMMA IterationExists ==
    ASSUME NEW S, NEW first \in S, NEW next \in [S -> S]
    PROVE  \E g \in [Nat -> S] : Iterates(g, first, next)
<1> DEFINE List(n) == CHOOSE h : Listed(h, n, S, first, next)
           g == [n \in Nat |-> List(n)[n]]
<1>1. \A n \in Nat : Listed(List(n), n, S, first, next)
  BY ListsExist
<1> HIDE DEF List
<1>2. \A n \in Nat : g[n] \in S
  BY <1>1 DEF Listed
<1>3. g[0] = first
  BY <1>1 DEF Listed
<1>4. ASSUME NEW n \in Nat, n # 0 PROVE g[n] = next[g[n - 1]]
  <2>1. n - 1 \in Nat /\ n \in 1..n
    BY <1>4
  <2>2. List(n)[n] = next[List(n)[n - 1]]
    BY <1>1, <2>1 DEF Listed
  <2>3. List(n)[n - 1] = List(n - 1)[n - 1]
    <3>1. /\ Listed(List(n), n, S, first, next)
          /\ Listed(List(n - 1), n - 1, S, first, next)
          /\ n - 1 <= n
      BY <1>1, <2>1
    <3> QED BY <2>1, <3>1, ListsAgree
  <2> QED BY <2>1, <2>2, <2>3
<1>5. g \in [Nat -> S]
  BY <1>2
<1>6. Iterates(g, first, next)
  <2>1. \A n \in Nat : g[n] = IF n = 0 THEN first ELSE next[g[n - 1]]
    BY <1>3, <1>4
  <2> HIDE DEF g
  <2> QED BY <1>5, <2>1 DEF Iterates
<1> QED BY <1>5, <1>6
=============================================================================
